---------------------------- MODULE Spec2Model ----------------------------
(***************************************************************************)
(* The video production pipeline of autonomous-247: one call of            *)
(* MainOrchestrator.generate_single_youtube_video, which runs              *)
(* YouTubeService.create_and_upload_video, which runs                      *)
(* VideoProducerService.produce_complete_video, while another thread may   *)
(* call MainOrchestrator.trigger_kill_switch at any moment.                *)
(*                                                                         *)
(* Python strings are sequences of one-character strings, so that          *)
(* flattening, splitting, stripping and joining are computed as the code   *)
(* computes them.                                                          *)
(***************************************************************************)
EXTENDS Integers, Sequences, FiniteSets, TLC

(***************************************************************************)
(* Bounds of the model.                                                    *)
(***************************************************************************)
\* longest script given as one string
MaxScriptLen == 1
\* most sections of a script given as a mapping
MaxSections == 1
\* longest text of one section of a mapping
MaxSectionLen == 0
\* most image prompts of a content package
MaxPrompts == 2
\* most image urls one web search result page offers for download
MaxCandidates == 1

\* seconds the wall clock advances while threads run
MaxClock == 1

\* automation cycles the scheduler thread runs
MaxCycles == 1

\* image prompts of the content package of a scheduled or UI-triggered run
MaxRunPrompts == 1

\* longest narration, in seconds
MaxNarration == 2

\* most images handed to the clip builder
MaxImages == 3

\* longest music track, in seconds
MaxMusic == 11

\* longest side of a source image, in units of SideUnit pixels
MaxSide == 5

\* longest text handed to _clean_script_text
MaxTextLen == 3

\* the batch is followed over the first MaxSigns entries of zodiac_signs
MaxSigns == 3

\* storage calls one thread makes
MaxStorageCalls == 2

\* scheduler threads that start() creates
MaxSchedThreads == 2

\* automation cycles the scheduler threads begin
MaxSchedCycles == 1

\* calls of update_settings
MaxUpdates == 1

\* calls of publish_post
MaxPublish == 2

(***************************************************************************)
(* Strings.                                                                *)
(***************************************************************************)
NL == "\n"

Chars == {" ", "#", "a", NL}

StringsUpTo(n) == UNION {[1..k -> Chars] : k \in 0..n}

\* str.strip() removes leading and trailing whitespace
IsSpace(c) == c \in {" ", NL}

RECURSIVE LStrip(_)
LStrip(s) == IF s # <<>> /\ IsSpace(Head(s)) THEN LStrip(Tail(s)) ELSE s

RECURSIVE RStrip(_)
RStrip(s) ==
  IF s # <<>> /\ IsSpace(s[Len(s)]) THEN RStrip(SubSeq(s, 1, Len(s) - 1)) ELSE s

Strip(s) == RStrip(LStrip(s))

StartsWith(s, p) == Len(s) >= Len(p) /\ SubSeq(s, 1, Len(p)) = p

\* sep.join(parts)
RECURSIVE Join(_, _)
Join(sep, parts) ==
  IF parts = <<>> THEN <<>>
  ELSE IF Len(parts) = 1 THEN parts[1]
  ELSE parts[1] \o sep \o Join(sep, Tail(parts))

\* s.split('\n'): never empty, "" splits to [""]
RECURSIVE Split(_)
Split(s) ==
  IF \A k \in 1..Len(s) : s[k] # NL THEN <<s>>
  ELSE LET k == CHOOSE n \in 1..Len(s) : s[n] = NL /\ \A m \in 1..(n - 1) : s[m] # NL
       IN  <<SubSeq(s, 1, k - 1)>> \o Split(SubSeq(s, k + 1, Len(s)))

\* [f(x) for x in xs if keep(x)] for the comprehension of _clean_script_text
RECURSIVE CleanedLines(_)
CleanedLines(lines) ==
  IF lines = <<>> THEN <<>>
  ELSE LET line == Head(lines)
           keep == /\ Strip(line) # <<>>
                   /\ ~(StartsWith(line, <<"#">>) \/ StartsWith(line, <<"*", "*">>))
       IN  (IF keep THEN <<Strip(line)>> ELSE <<>>) \o CleanedLines(Tail(lines))

\* VideoProducerService._clean_script_text for a string argument
clean_script_text(script_text) == Join(<<" ">>, CleanedLines(Split(script_text)))

(***************************************************************************)
(* Content packages: the script is missing, a string, or an ordered        *)
(* mapping of which only the values matter.                                *)
(***************************************************************************)
NoScript == [kind |-> "none"]

StrScript(s) == [kind |-> "str", val |-> s]

DictScript(vs) == [kind |-> "dict", vals |-> vs]

Scripts ==
  {NoScript}
    \cup {StrScript(s) : s \in StringsUpTo(MaxScriptLen)}
    \cup {DictScript(vs) :
            vs \in UNION {[1..k -> StringsUpTo(MaxSectionLen)] : k \in 0..MaxSections}}

\* Python truthiness of content.get('script')
Falsy(script) ==
  \/ script.kind = "none"
  \/ script.kind = "str" /\ script.val = <<>>
  \/ script.kind = "dict" /\ script.vals = <<>>

\* the script as one string, line 127
Flatten(script) ==
  IF script.kind = "dict" THEN Join(<<NL>>, script.vals) ELSE script.val


(***************************************************************************)
(* State.                                                                  *)
(***************************************************************************)
VARIABLES
  kill,             \* MainOrchestrator.kill_switch (threading.Event)
  killStage,        \* the pipeline stage that was in progress when the switch was last set
  killRequests,     \* the image requests issued before the switch was last set
  content,          \* the content package: [script, prompts]
  image_source,     \* "ai_generated" or "web_search"
  api_key,          \* whether stability_api_key is configured
  pc,               \* position of the calling thread
  script_for_audio, \* local of produce_complete_video
  audio_file,       \* local of produce_complete_video: Unset, PyNone or a Path
  ttsCalls,         \* calls of the gTTS engine
  main_audio,       \* "unset" or "loaded"
  mode,             \* the sourcing function running: "none", "gen" or "search"
  i,                \* index of the prompt loop
  paths_acc,        \* image_paths local to the sourcing function
  cand,             \* image urls of the current search result still to try
  image_paths,      \* local of produce_complete_video: Unset or a List of paths
  genRequests,      \* requests to the image generation API
  searchRequests,   \* image search requests
  downloads,        \* image download requests
  intro,            \* whether the intro clip is built
  clips,            \* content_clips: Unset or a List of clips
  j,                \* index of the clip loop
  clips_acc,        \* clips local to _create_content_clips_from_images
  outro,            \* whether the outro clip is built
  assembled,        \* "no", "failed", or the audio of the final clip: "narration", "mixed"
  renderCalls,      \* calls of write_videofile
  files,            \* local files that exist
  lastError,        \* the last exception raised inside produce_complete_video
  exc,              \* the exception leaving produce_complete_video
  ret,              \* the value produce_complete_video returned
  uploaded,         \* what create_and_upload_video did about the upload
  ysExc,            \* the exception leaving create_and_upload_video
  ysRet,            \* the value create_and_upload_video returned
  orchRet           \* the value generate_single_youtube_video returned

envVars == <<kill, killStage, killRequests>>

inputVars == <<content, image_source, api_key>>

audioVars == <<script_for_audio, audio_file, ttsCalls, main_audio>>

imgVars == <<mode, i, paths_acc, cand, image_paths, genRequests, searchRequests, downloads>>

clipVars == <<intro, clips, j, clips_acc, outro, assembled>>

resultVars == <<lastError, exc, ret>>

callerVars == <<uploaded, ysExc, ysRet, orchRet>>

vars == <<envVars, inputVars, pc, audioVars, imgVars, clipVars, renderCalls, files,
          resultVars, callerVars>>

\* everything but the kill switch
pipelineVars == <<killStage, killRequests, inputVars, pc, audioVars, imgVars, clipVars,
                  renderCalls, files, resultVars, callerVars>>

(***************************************************************************)
(* State of the process that serves the UI and runs the scheduler: the     *)
(* threads that call into the one MainOrchestrator, and the scheduler's    *)
(* own fields.                                                             *)
(***************************************************************************)
VARIABLES
  is_running,       \* AutomationScheduler.is_running
  stats,            \* AutomationScheduler.stats
  cycles,           \* automation cycles that have ended
  clock,            \* datetime.now() in whole seconds
  rpc,              \* position of each thread
  rk,               \* index of the prompt loop of each thread's run
  rout,             \* output_filename of each thread's run, as its timestamp
  rfiles,           \* the paths each thread's run has written
  observed,         \* whether a checkpoint of each thread's run read the switch as set
  rresult           \* what create_and_upload_video returned to each thread

runVars == <<is_running, stats, cycles, clock, rpc, rk, rout, rfiles, observed, rresult>>

(***************************************************************************)
(* State of the timeline assembly, lines 140-155 of produce_complete_video, *)
(* with the durations of the clips.                                        *)
(***************************************************************************)
VARIABLES
  tpc,              \* position in lines 140-155
  narration,        \* main_audio.duration, in seconds
  images,           \* len(image_paths): the images are numbered 1..images
  unreadable,       \* the images ImageClip cannot load
  music_pool,       \* MUSIC_ASSETS_PATH: "missing", "empty" or "tracks"
  music_track,      \* the duration of the track random.choice picks, in seconds
  music_error,      \* the step of _add_background_music that raises, or "none"
  intro_clip,       \* intro: Unset or a clip
  content_clips,    \* content_clips: Unset or a List of clips
  outro_clip,       \* outro: Unset or a clip
  final_video,      \* final_video, then final_video_with_music: Unset or a video
  rendered          \* the duration of the file write_videofile wrote, or Unset

timelineVars == <<tpc, narration, images, unreadable, music_pool, music_track, music_error,
                  intro_clip, content_clips, outro_clip, final_video, rendered>>

(***************************************************************************)
(* Arguments and results of the functions checked on their own.            *)
(***************************************************************************)
VARIABLES
  resolution,       \* target_resolution: <<width, height>>
  image_size,       \* clip.size of the ImageClip: <<width, height>>
  clip_resized,     \* the size of clip_resized, or <<>>
  final_clip,       \* the frame of final_clip and what the image covers of it, or Unset
  script_text,      \* the argument of _clean_script_text
  cleaned_script    \* what _clean_script_text returned, or Unset

functionVars == <<resolution, image_size, clip_resized, final_clip, script_text, cleaned_script>>

(***************************************************************************)
(* The astrology batch of InstagramService and the orchestrator call       *)
(* around it.                                                              *)
(***************************************************************************)
VARIABLES
  bpc,              \* position in generate_all_astrology_posts
  sign,             \* index of the loop's sign in zodiac_signs
  all_posts,        \* all_posts: the signs whose post was appended, in order
  batchSteps,       \* external steps the batch has started
  batchKillSteps,   \* external steps started before the switch was set
  batchRet          \* what generate_all_astrology_posts returned, or Unset

batchVars == <<bpc, sign, all_posts, batchSteps, batchKillSteps, batchRet>>

(***************************************************************************)
(* The module storage_service and the threads that call it.                *)
(***************************************************************************)
VARIABLES
  configured,       \* all five DO_SPACES_* settings are present
  client,           \* the module global _client: 0 for None, else the client's number
  constructed,      \* how many times session.client(...) has run
  spc,              \* per thread: position in the storage call
  sop,              \* per thread: the function called
  screated,         \* per thread: the client its session.client(...) built
  scalls,           \* per thread: calls made
  received          \* every client get_client has returned to a caller

storageVars == <<configured, client, constructed, spc, sop, screated, scalls, received>>

(***************************************************************************)
(* What the astrology batch leaves behind: the signs its loop has taken up *)
(* and the temporary images in temp_images_path.                           *)
(***************************************************************************)
VARIABLES
  visited,          \* the signs the loop has taken up, in order
  temp_images       \* the signs whose temp_pexels_<sign>.jpg exists

batchFileVars == <<visited, temp_images>>

(***************************************************************************)
(* AutomationScheduler with the threads start() creates, the global        *)
(* schedule of the schedule library, and the UI thread that calls start,   *)
(* stop and update_settings. is_running is the field declared above.       *)
(***************************************************************************)
VARIABLES
  scheduler_thread, \* AutomationScheduler.scheduler_thread: 0 for None, else the thread's number
  thread_pos,       \* per scheduler thread: "unborn", its position in _run_pending_jobs, "dead"
  jobs,             \* schedule.jobs: [day, at, by], by naming the _setup_schedule call that added it
  setup_args,       \* per caller of _setup_schedule: the upload_time and upload_days it read
  settings,         \* AutomationScheduler.settings
  settings_file,    \* automation_settings.json
  upos,             \* position of the UI thread inside stop or update_settings
  updates,          \* calls of update_settings made
  auto_stats,       \* AutomationScheduler.stats
  stats_file,       \* automation_stats.json
  begun,            \* automation cycles begun
  completed,        \* automation cycles that have returned
  youtube_api,      \* YouTubeService.youtube_api is not None
  uploads           \* videos upload_video has put on YouTube

automationVars == <<scheduler_thread, thread_pos, jobs, setup_args, settings, settings_file, upos,
                    updates, auto_stats, stats_file, begun, completed, youtube_api, uploads>>

(***************************************************************************)
(* LinkedInService and the calls of publish_post.                          *)
(***************************************************************************)
VARIABLES
  access_token,     \* LinkedInService.access_token
  user_urn,         \* LinkedInService.user_urn
  post_data,        \* the argument of publish_post: [post_text, image_path]
  lpc,              \* position in publish_post
  li_requests,      \* the requests the current call has sent, in order
  li_failed,        \* the step of the current call that failed, or "none"
  lret,             \* what publish_post returned, or Unset
  publishes         \* calls of publish_post made

linkedinVars == <<access_token, user_urn, post_data, lpc, li_requests, li_failed, lret, publishes>>

VARIABLES
  targeted          \* per thread: the run that was awaiting a checkpoint when the switch was
                    \* last set, as the number of cycles ended by then, or NoStamp

\* the variables the single-run pipeline leaves alone
besideVars == <<runVars, timelineVars, functionVars, batchVars, storageVars, batchFileVars,
                automationVars, linkedinVars, targeted>>

\* the variables neither the threads of the runs nor a stop request touch
restFrozen == <<pipelineVars, timelineVars, functionVars, batchVars, storageVars, batchFileVars,
                automationVars, linkedinVars>>

\* the variables the threads of the runs leave alone
restVars == <<restFrozen, targeted>>

\* AutomationScheduler fields and run state that the scheduler's own threads leave alone
runRest == <<stats, cycles, clock, rpc, rk, rout, rfiles, observed, rresult>>

allVars == <<vars, besideVars>>

\* the thread of a UI session's script, and the scheduler's background thread
Threads == {"ui", "sched"}

NoStamp == -1

NoResult == [success |-> FALSE, message |-> "unset"]

\* AutomationScheduler._get_default_stats
DefaultStats == [videos_generated |-> 0, videos_uploaded |-> 0, errors |-> 0]

\* no function is being applied
FunctionsIdle ==
  /\ resolution = <<>>
  /\ image_size = <<>>
  /\ clip_resized = <<>>
  /\ final_clip = [kind |-> "unset"]
  /\ script_text = <<>>
  /\ cleaned_script = [kind |-> "unset"]

\* no astrology batch has been asked for
BatchIdle ==
  /\ bpc = "idle"
  /\ sign = 0
  /\ all_posts = <<>>
  /\ batchSteps = 0
  /\ batchKillSteps = 0
  /\ batchRet = [kind |-> "unset"]

\* storage_service as imported, line 14: no client yet, no call made
StorageIdle ==
  /\ configured = TRUE
  /\ client = 0
  /\ constructed = 0
  /\ spc = [t \in Threads |-> "idle"]
  /\ sop = [t \in Threads |-> "none"]
  /\ screated = [t \in Threads |-> 0]
  /\ scalls = [t \in Threads |-> 0]
  /\ received = {}

\* the scheduler threads, numbered in the order start() creates them
SchedThreads == 1..MaxSchedThreads

\* the callers of _setup_schedule: the UI thread through update_settings, and
\* each scheduler thread at its start
SetupCallers == {0} \cup SchedThreads

\* AutomationScheduler._get_default_settings, the keys the schedule depends on
DefaultSettings == [upload_days |-> {"tuesday", "thursday", "saturday"}, upload_time |-> "19:00"]

\* AutomationScheduler._get_default_stats; last_run counts the cycles ended at the
\* time it was written, 0 standing for None
AutoDefaultStats == [videos_generated |-> 0, videos_uploaded |-> 0, errors |-> 0, last_run |-> 0]

\* no temporary image exists and no sign has been taken up
BatchFilesIdle ==
  /\ visited = <<>>
  /\ temp_images = {}

\* after AutomationScheduler.__init__ with no state files: lines 32-36
AutomationIdle ==
  /\ scheduler_thread = 0
  /\ thread_pos = [t \in SchedThreads |-> "unborn"]
  /\ jobs = {}
  /\ setup_args = [a \in SetupCallers |-> DefaultSettings]
  /\ settings = DefaultSettings
  /\ settings_file = DefaultSettings
  /\ upos = "idle"
  /\ updates = 0
  /\ auto_stats = AutoDefaultStats
  /\ stats_file = AutoDefaultStats
  /\ begun = 0
  /\ completed = 0
  /\ youtube_api = TRUE
  /\ uploads = 0

\* after LinkedInService.__init__, lines 27-28, and no call of publish_post
LinkedInIdle ==
  /\ access_token = "None"
  /\ user_urn = "None"
  /\ post_data = [post_text |-> "None", image_path |-> "None"]
  /\ lpc = "idle"
  /\ li_requests = <<>>
  /\ li_failed = "none"
  /\ lret = [kind |-> "unset"]
  /\ publishes = 0

\* the parts of the program a function or a module checked on its own leaves idle
OthersIdle ==
  FunctionsIdle /\ BatchIdle /\ StorageIdle /\ BatchFilesIdle /\ AutomationIdle /\ LinkedInIdle

\* nothing is being assembled
TimelineIdle ==
  /\ tpc = "idle"
  /\ narration = 0
  /\ images = 0
  /\ unreadable = {}
  /\ music_pool = "missing"
  /\ music_track = 0
  /\ music_error = "none"
  /\ intro_clip = [kind |-> "unset"]
  /\ content_clips = [kind |-> "unset"]
  /\ outro_clip = [kind |-> "unset"]
  /\ final_video = [kind |-> "unset"]
  /\ rendered = [kind |-> "unset"]

\* after MainOrchestrator.__init__: the scheduler is built and stopped, no thread
\* is inside a run
RunsIdle ==
  /\ targeted = [t \in Threads |-> NoStamp]
  /\ is_running = FALSE
  /\ stats = DefaultStats
  /\ cycles = 0
  /\ clock = 0
  /\ rpc = [t \in Threads |-> "idle"]
  /\ rk = [t \in Threads |-> 0]
  /\ rout = [t \in Threads |-> NoStamp]
  /\ rfiles = [t \in Threads |-> {}]
  /\ observed = [t \in Threads |-> FALSE]
  /\ rresult = [t \in Threads |-> NoResult]

(***************************************************************************)
(* Values.                                                                 *)
(***************************************************************************)
Unset == [kind |-> "unset"]

PyNone == [kind |-> "None"]

Path(p) == [kind |-> "path", path |-> p]

List(s) == [kind |-> "list", items |-> s]

NoError == [type |-> "none", msg |-> ""]

InterruptedException(m) == [type |-> "InterruptedException", msg |-> m]

ValueError(m) == [type |-> "ValueError", msg |-> m]

\* any other exception a library call raises
LibraryError(m) == [type |-> "Exception", msg |-> m]

AudioPath == <<"script_audio", 0>>

ImagePath(n) == <<"image", n>>

VideoPath == <<"video", 0>>

MsgBeforeStart == "Operation cancelled before start."

MsgAudioCancelled == "Audio generation cancelled."

MsgAfterAudio == "Operation cancelled after audio generation."

MsgGenCancelled == "AI Image generation cancelled."

MsgSearchCancelled == "Image download cancelled."

MsgAfterImages == "Operation cancelled after image generation."

MsgClipsCancelled == "Video clip assembly cancelled."

MsgBeforeRender == "Operation cancelled before final render."

MsgScriptEmpty == "Critical Error: Script is empty or missing."

MsgAudioFailed == "Audio generation failed."

MsgEmptyClipList == "max() arg is an empty sequence"

MsgUserCancelled == "Operation Cancelled by User."

Init ==
  /\ kill \in BOOLEAN
  /\ killStage = 0
  /\ killRequests = 0
  /\ content \in [script : Scripts, prompts : 0..MaxPrompts]
  /\ image_source \in {"ai_generated", "web_search"}
  /\ api_key \in BOOLEAN
  /\ pc = "idle"
  /\ script_for_audio = <<>>
  /\ audio_file = Unset
  /\ ttsCalls = 0
  /\ main_audio = "unset"
  /\ mode = "none"
  /\ i = 0
  /\ paths_acc = <<>>
  /\ cand = 0
  /\ image_paths = Unset
  /\ genRequests = 0
  /\ searchRequests = 0
  /\ downloads = 0
  /\ intro = FALSE
  /\ clips = Unset
  /\ j = 0
  /\ clips_acc = <<>>
  /\ outro = FALSE
  /\ assembled = "no"
  /\ renderCalls = 0
  /\ files = {}
  /\ lastError = NoError
  /\ exc = NoError
  /\ ret = Unset
  /\ uploaded = "none"
  /\ ysExc = NoError
  /\ ysRet = Unset
  /\ orchRet = Unset

(***************************************************************************)
(* The pipeline stage (1 flatten and clean, 2 narration, 3 images,         *)
(* 4 segments, 5 concatenation and music, 6 render) the calling thread is  *)
(* in.  A position between a checkpoint and the first statement of the     *)
(* next stage counts as that next stage, and cleaning the script, which    *)
(* generate_script_audio does after its own checkpoint, as the start of    *)
(* stage 2.                                                                *)
(***************************************************************************)
StageOf(p) ==
  CASE p \in {"p_validate", "a_check"} -> 1
    [] p \in {"a_clean", "a_tts", "p_audio_result", "p_after_audio"} -> 2
    [] p \in {"p_load_audio", "p_select", "img_loop", "img_request", "img_download",
              "p_after_images"} -> 3
    [] p \in {"p_intro", "p_content", "clip_loop", "clip_make", "p_outro"} -> 4
    [] p \in {"p_concat", "p_before_render"} -> 5
    [] p \in {"p_render"} -> 6
    [] OTHER -> 0

(***************************************************************************)
(* MainOrchestrator.trigger_kill_switch, called by another thread.         *)
(***************************************************************************)
trigger_kill_switch ==
  /\ ~kill
  /\ pc # "done"
  /\ kill' = TRUE
  /\ killStage' = StageOf(pc)
  /\ killRequests' = genRequests + searchRequests + downloads
  /\ UNCHANGED <<inputVars, pc, audioVars, imgVars, clipVars, renderCalls, files,
                 resultVars, callerVars>>

\* ProducerHandler without the except InterruptedException clause: the general
\* clause takes the cancellation and the call returns None
ProducerHandler_NoCancelClause(e) == [exc |-> NoError, ret |-> PyNone]

(***************************************************************************)
(* The except clauses of produce_complete_video: what leaves the call when *)
(* e is raised inside its try block.                                       *)
(***************************************************************************)
ProducerHandler(e) ==
  IF e.type = "InterruptedException"
    THEN [exc |-> e, ret |-> Unset]
    ELSE [exc |-> NoError, ret |-> PyNone]

\* raise e inside the try block of produce_complete_video
Throw(e) ==
  LET h == ProducerHandler(e)
  IN  /\ lastError' = e
      /\ exc' = h.exc
      /\ ret' = h.ret
      /\ pc' = IF h.exc.type = "none" THEN "ys_check_video" ELSE "ys_except"

(***************************************************************************)
(* generate_single_youtube_video, line 73: reset_kill_switch.              *)
(***************************************************************************)
OrchStart ==
  /\ pc = "idle"
  /\ kill' = FALSE
  /\ killStage' = 0
  /\ killRequests' = 0
  /\ pc' = "ys_content"
  /\ UNCHANGED <<inputVars, audioVars, imgVars, clipVars, renderCalls, files,
                 resultVars, callerVars>>

\* the except clause of create_and_upload_video
YsHandler(e) == [success |-> FALSE, message |-> e.msg]

(***************************************************************************)
(* create_and_upload_video, lines 40-44: the content generator returns a   *)
(* package or nothing.                                                     *)
(***************************************************************************)
YsGenerateContent ==
  /\ pc = "ys_content"
  /\ \E ok \in BOOLEAN :
       IF ok
         THEN /\ pc' = "p_start"
              /\ UNCHANGED ysRet
         ELSE /\ pc' = "orch_return"
              /\ ysRet' = YsHandler(LibraryError("Failed to generate content package."))
  /\ UNCHANGED <<envVars, inputVars, audioVars, imgVars, clipVars, renderCalls, files,
                 resultVars, uploaded, ysExc, orchRet>>

\* ProducerStart clearing the switch it finds set, instead of raising
ProducerStart_ClearsSwitch ==
  /\ pc = "p_start"
  /\ kill' = FALSE
  /\ pc' = "p_validate"
  /\ UNCHANGED <<killStage, killRequests, inputVars, audioVars, imgVars, clipVars,
                 renderCalls, files, resultVars, callerVars>>

(***************************************************************************)
(* produce_complete_video, line 120.                                       *)
(***************************************************************************)
ProducerStart ==
  /\ pc = "p_start"
  /\ IF kill
       THEN Throw(InterruptedException(MsgBeforeStart))
       ELSE pc' = "p_validate" /\ UNCHANGED resultVars
  /\ UNCHANGED <<envVars, inputVars, audioVars, imgVars, clipVars, renderCalls, files,
                 callerVars>>

\* ValidateScript handing over to image sourcing before the narration is made
ValidateScript_ImagesFirst ==
  /\ pc = "p_validate"
  /\ IF Falsy(content.script)
       THEN Throw(ValueError(MsgScriptEmpty)) /\ UNCHANGED script_for_audio
       ELSE /\ script_for_audio' = Flatten(content.script)
            /\ pc' = "p_select"
            /\ UNCHANGED resultVars
  /\ UNCHANGED <<envVars, inputVars, audio_file, ttsCalls, main_audio, imgVars, clipVars,
                 renderCalls, files, callerVars>>

(***************************************************************************)
(* produce_complete_video, lines 125-127: the script is checked and then   *)
(* flattened.                                                              *)
(***************************************************************************)
ValidateScript ==
  /\ pc = "p_validate"
  /\ IF Falsy(content.script)
       THEN Throw(ValueError(MsgScriptEmpty)) /\ UNCHANGED script_for_audio
       ELSE /\ script_for_audio' = Flatten(content.script)
            /\ pc' = "a_check"
            /\ UNCHANGED resultVars
  /\ UNCHANGED <<envVars, inputVars, audio_file, ttsCalls, main_audio, imgVars, clipVars,
                 renderCalls, files, callerVars>>

(***************************************************************************)
(* generate_script_audio, line 173.                                        *)
(***************************************************************************)
AudioCheck ==
  /\ pc = "a_check"
  /\ IF kill
       THEN Throw(InterruptedException(MsgAudioCancelled))
       ELSE pc' = "a_clean" /\ UNCHANGED resultVars
  /\ UNCHANGED <<envVars, inputVars, audioVars, imgVars, clipVars, renderCalls, files,
                 callerVars>>

(***************************************************************************)
(* generate_script_audio, lines 174-175: an empty cleaned script returns   *)
(* None.                                                                   *)
(***************************************************************************)
AudioClean ==
  /\ pc = "a_clean"
  /\ IF clean_script_text(script_for_audio) = <<>>
       THEN audio_file' = PyNone /\ pc' = "p_audio_result"
       ELSE pc' = "a_tts" /\ UNCHANGED audio_file
  /\ UNCHANGED <<envVars, inputVars, script_for_audio, ttsCalls, main_audio, imgVars,
                 clipVars, renderCalls, files, resultVars, callerVars>>

\* AudioTTS without the try block of lines 181-192: an error of gTTS leaves
\* generate_script_audio as an exception
AudioTTS_ErrorRaises ==
  /\ pc = "a_tts"
  /\ \E outcome \in {"no_engine", "error", "saved"} :
       /\ ttsCalls' = IF outcome = "no_engine" THEN ttsCalls ELSE ttsCalls + 1
       /\ files' = IF outcome = "saved" THEN files \cup {AudioPath} ELSE files
       /\ IF outcome = "error"
            THEN Throw(LibraryError("gTTS")) /\ UNCHANGED audio_file
            ELSE /\ audio_file' = IF outcome = "saved" THEN Path(AudioPath) ELSE PyNone
                 /\ pc' = "p_audio_result"
                 /\ UNCHANGED resultVars
  /\ UNCHANGED <<envVars, inputVars, script_for_audio, main_audio, imgVars, clipVars,
                 renderCalls, callerVars>>

(***************************************************************************)
(* generate_script_audio, lines 177-192: gTTS is missing, or its call      *)
(* fails, or it writes the file.                                           *)
(***************************************************************************)
AudioTTS ==
  /\ pc = "a_tts"
  /\ \E outcome \in {"no_engine", "error", "saved"} :
       /\ ttsCalls' = IF outcome = "no_engine" THEN ttsCalls ELSE ttsCalls + 1
       /\ files' = IF outcome = "saved" THEN files \cup {AudioPath} ELSE files
       /\ audio_file' = IF outcome = "saved" THEN Path(AudioPath) ELSE PyNone
  /\ pc' = "p_audio_result"
  /\ UNCHANGED <<envVars, inputVars, script_for_audio, main_audio, imgVars, clipVars,
                 renderCalls, resultVars, callerVars>>

\* AudioResult without the check of line 130
AudioResult_NoNullCheck ==
  /\ pc = "p_audio_result"
  /\ pc' = "p_after_audio"
  /\ UNCHANGED <<envVars, inputVars, audioVars, imgVars, clipVars, renderCalls, files,
                 resultVars, callerVars>>

(***************************************************************************)
(* produce_complete_video, line 130.                                       *)
(***************************************************************************)
AudioResult ==
  /\ pc = "p_audio_result"
  /\ IF audio_file.kind = "None"
       THEN Throw(ValueError(MsgAudioFailed))
       ELSE pc' = "p_after_audio" /\ UNCHANGED resultVars
  /\ UNCHANGED <<envVars, inputVars, audioVars, imgVars, clipVars, renderCalls, files,
                 callerVars>>

(***************************************************************************)
(* produce_complete_video, line 131.                                       *)
(***************************************************************************)
CheckAfterAudio ==
  /\ pc = "p_after_audio"
  /\ IF kill
       THEN Throw(InterruptedException(MsgAfterAudio))
       ELSE pc' = "p_load_audio" /\ UNCHANGED resultVars
  /\ UNCHANGED <<envVars, inputVars, audioVars, imgVars, clipVars, renderCalls, files,
                 callerVars>>

(***************************************************************************)
(* produce_complete_video, lines 133-134: AudioFileClip reads the file.    *)
(***************************************************************************)
LoadAudio ==
  /\ pc = "p_load_audio"
  /\ \E ok \in BOOLEAN :
       IF ok
         THEN main_audio' = "loaded" /\ pc' = "p_select" /\ UNCHANGED resultVars
         ELSE Throw(LibraryError("AudioFileClip")) /\ UNCHANGED main_audio
  /\ UNCHANGED <<envVars, inputVars, script_for_audio, audio_file, ttsCalls, imgVars,
                 clipVars, renderCalls, files, callerVars>>

(***************************************************************************)
(* Which sourcing loop runs: produce_complete_video line 137 and the       *)
(* fallback of _generate_images_with_stability, lines 91-93.               *)
(***************************************************************************)
SourcingMode(source, key) ==
  IF source = "ai_generated" THEN (IF key THEN "gen" ELSE "search") ELSE "search"

SelectImageSource ==
  /\ pc = "p_select"
  /\ mode' = SourcingMode(image_source, api_key)
  /\ i' = 0
  /\ paths_acc' = <<>>
  /\ pc' = "img_loop"
  /\ UNCHANGED <<envVars, inputVars, audioVars, cand, image_paths, genRequests,
                 searchRequests, downloads, clipVars, renderCalls, files, resultVars,
                 callerVars>>

\* ImgLoop with the kill switch read inside the try block of the loop body: the
\* except Exception clause prints the cancellation and the loop goes on
ImgLoop_CheckInsideTry ==
  /\ pc = "img_loop"
  /\ IF i = content.prompts
       THEN /\ image_paths' = List(paths_acc)
            /\ pc' = "p_after_images"
            /\ UNCHANGED <<i, resultVars>>
       ELSE IF kill
         THEN /\ lastError' = InterruptedException(
                                IF mode = "gen" THEN MsgGenCancelled ELSE MsgSearchCancelled)
              /\ i' = i + 1
              /\ UNCHANGED <<pc, exc, ret, image_paths>>
         ELSE pc' = "img_request" /\ UNCHANGED <<i, image_paths, resultVars>>
  /\ UNCHANGED <<envVars, inputVars, audioVars, mode, paths_acc, cand, genRequests,
                 searchRequests, downloads, clipVars, renderCalls, files, callerVars>>

(***************************************************************************)
(* The head of the prompt loop (lines 63-64 and 97-98) and the return      *)
(* after the last prompt (lines 88 and 116).                               *)
(***************************************************************************)
ImgLoop ==
  /\ pc = "img_loop"
  /\ IF i = content.prompts
       THEN /\ image_paths' = List(paths_acc)
            /\ pc' = "p_after_images"
            /\ UNCHANGED resultVars
       ELSE IF kill
         THEN /\ Throw(InterruptedException(
                         IF mode = "gen" THEN MsgGenCancelled ELSE MsgSearchCancelled))
              /\ UNCHANGED image_paths
         ELSE pc' = "img_request" /\ UNCHANGED <<image_paths, resultVars>>
  /\ UNCHANGED <<envVars, inputVars, audioVars, mode, i, paths_acc, cand, genRequests,
                 searchRequests, downloads, clipVars, renderCalls, files, callerVars>>

\* GenRequest asking again for a prompt whose request failed
GenRequest_RetryOnFailure ==
  /\ pc = "img_request"
  /\ mode = "gen"
  /\ genRequests' = genRequests + 1
  /\ \E ok \in BOOLEAN :
       IF ok
         THEN /\ files' = files \cup {ImagePath(i)}
              /\ paths_acc' = Append(paths_acc, ImagePath(i))
              /\ i' = i + 1
         ELSE UNCHANGED <<files, paths_acc, i>>
  /\ pc' = "img_loop"
  /\ UNCHANGED <<envVars, inputVars, audioVars, mode, cand, image_paths, searchRequests,
                 downloads, clipVars, renderCalls, resultVars, callerVars>>

\* GenRequest without the try block of lines 102-115: a failed request leaves the
\* function as an exception
GenRequest_FailureRaises ==
  /\ pc = "img_request"
  /\ mode = "gen"
  /\ genRequests' = genRequests + 1
  /\ \E ok \in BOOLEAN :
       IF ok
         THEN /\ files' = files \cup {ImagePath(i)}
              /\ paths_acc' = Append(paths_acc, ImagePath(i))
              /\ i' = i + 1
              /\ pc' = "img_loop"
              /\ UNCHANGED resultVars
         ELSE /\ Throw(LibraryError("generation request"))
              /\ UNCHANGED <<files, paths_acc, i>>
  /\ UNCHANGED <<envVars, inputVars, audioVars, mode, cand, image_paths, searchRequests,
                 downloads, clipVars, renderCalls, callerVars>>

(***************************************************************************)
(* _generate_images_with_stability, lines 100-115: one request for the     *)
(* prompt; a failure is printed and the prompt skipped.                    *)
(***************************************************************************)
GenRequest ==
  /\ pc = "img_request"
  /\ mode = "gen"
  /\ genRequests' = genRequests + 1
  /\ \E ok \in BOOLEAN :
       IF ok
         THEN /\ files' = files \cup {ImagePath(i)}
              /\ paths_acc' = Append(paths_acc, ImagePath(i))
         ELSE UNCHANGED <<files, paths_acc>>
  /\ i' = i + 1
  /\ pc' = "img_loop"
  /\ UNCHANGED <<envVars, inputVars, audioVars, mode, cand, image_paths, searchRequests,
                 downloads, clipVars, renderCalls, resultVars, callerVars>>

(***************************************************************************)
(* _search_and_download_images, lines 66-70 and 86-87: the search request  *)
(* fails or offers no image url (n = 0), or offers n urls to try.          *)
(***************************************************************************)
SearchRequest ==
  /\ pc = "img_request"
  /\ mode = "search"
  /\ searchRequests' = searchRequests + 1
  /\ \E n \in 0..MaxCandidates :
       /\ cand' = n
       /\ IF n = 0
            THEN i' = i + 1 /\ pc' = "img_loop"
            ELSE i' = i /\ pc' = "img_download"
  /\ UNCHANGED <<envVars, inputVars, audioVars, mode, paths_acc, image_paths, genRequests,
                 downloads, clipVars, renderCalls, files, resultVars, callerVars>>

(***************************************************************************)
(* _search_and_download_images, lines 72-85: one url is fetched; the first *)
(* image that decodes is saved and ends the inner loop.                    *)
(***************************************************************************)
Download ==
  /\ pc = "img_download"
  /\ downloads' = downloads + 1
  /\ \E ok \in BOOLEAN :
       IF ok
         THEN /\ files' = files \cup {ImagePath(i)}
              /\ paths_acc' = Append(paths_acc, ImagePath(i))
              /\ cand' = 0
              /\ i' = i + 1
              /\ pc' = "img_loop"
         ELSE /\ UNCHANGED <<files, paths_acc>>
              /\ cand' = cand - 1
              /\ i' = IF cand = 1 THEN i + 1 ELSE i
              /\ pc' = IF cand = 1 THEN "img_loop" ELSE "img_download"
  /\ UNCHANGED <<envVars, inputVars, audioVars, mode, image_paths, genRequests,
                 searchRequests, clipVars, renderCalls, resultVars, callerVars>>

(***************************************************************************)
(* produce_complete_video, line 138.                                       *)
(***************************************************************************)
CheckAfterImages ==
  /\ pc = "p_after_images"
  /\ IF kill
       THEN Throw(InterruptedException(MsgAfterImages))
       ELSE pc' = "p_intro" /\ UNCHANGED resultVars
  /\ UNCHANGED <<envVars, inputVars, audioVars, imgVars, clipVars, renderCalls, files,
                 callerVars>>

(***************************************************************************)
(* produce_complete_video, line 140: _create_intro_clip.                   *)
(***************************************************************************)
BuildIntro ==
  /\ pc = "p_intro"
  /\ \E ok \in BOOLEAN :
       IF ok
         THEN intro' = TRUE /\ pc' = "p_content" /\ UNCHANGED resultVars
         ELSE Throw(LibraryError("_create_intro_clip")) /\ UNCHANGED intro
  /\ UNCHANGED <<envVars, inputVars, audioVars, imgVars, clips, j, clips_acc, outro,
                 assembled, renderCalls, files, callerVars>>

(***************************************************************************)
(* _create_content_clips_from_images, lines 210-214: no image gives one    *)
(* solid colour clip.                                                      *)
(***************************************************************************)
ContentClips ==
  /\ pc = "p_content"
  /\ IF image_paths.items = <<>>
       THEN /\ clips' = List(<<[kind |-> "color"]>>)
            /\ pc' = "p_outro"
            /\ UNCHANGED <<j, clips_acc>>
       ELSE /\ j' = 0
            /\ clips_acc' = <<>>
            /\ pc' = "clip_loop"
            /\ UNCHANGED clips
  /\ UNCHANGED <<envVars, inputVars, audioVars, imgVars, intro, outro, assembled,
                 renderCalls, files, resultVars, callerVars>>

(***************************************************************************)
(* _create_content_clips_from_images, lines 215-216 and 225.               *)
(***************************************************************************)
ClipLoop ==
  /\ pc = "clip_loop"
  /\ IF j = Len(image_paths.items)
       THEN clips' = List(clips_acc) /\ pc' = "p_outro" /\ UNCHANGED resultVars
       ELSE IF kill
         THEN Throw(InterruptedException(MsgClipsCancelled)) /\ UNCHANGED clips
         ELSE pc' = "clip_make" /\ UNCHANGED <<clips, resultVars>>
  /\ UNCHANGED <<envVars, inputVars, audioVars, imgVars, intro, j, clips_acc, outro,
                 assembled, renderCalls, files, callerVars>>

(***************************************************************************)
(* _create_content_clips_from_images, lines 217-224: an image that cannot  *)
(* be turned into a clip is skipped with a warning.                        *)
(***************************************************************************)
ClipMake ==
  /\ pc = "clip_make"
  /\ \E ok \in BOOLEAN :
       clips_acc' = IF ok
                      THEN Append(clips_acc,
                                  [kind |-> "image", path |-> image_paths.items[j + 1]])
                      ELSE clips_acc
  /\ j' = j + 1
  /\ pc' = "clip_loop"
  /\ UNCHANGED <<envVars, inputVars, audioVars, imgVars, intro, clips, outro, assembled,
                 renderCalls, files, resultVars, callerVars>>

(***************************************************************************)
(* produce_complete_video, line 142: _create_outro_clip.                   *)
(***************************************************************************)
BuildOutro ==
  /\ pc = "p_outro"
  /\ \E ok \in BOOLEAN :
       IF ok
         THEN outro' = TRUE /\ pc' = "p_concat" /\ UNCHANGED resultVars
         ELSE Throw(LibraryError("_create_outro_clip")) /\ UNCHANGED outro
  /\ UNCHANGED <<envVars, inputVars, audioVars, imgVars, intro, clips, j, clips_acc,
                 assembled, renderCalls, files, callerVars>>

(***************************************************************************)
(* produce_complete_video, lines 144-148: the content clips are            *)
(* concatenated (moviepy takes the maximum over the clips' sizes, which    *)
(* raises ValueError for an empty list), the narration is attached, intro, *)
(* content and outro are concatenated, and _add_background_music mixes a   *)
(* track or returns the clip as it is.                                     *)
(***************************************************************************)
Assemble ==
  /\ pc = "p_concat"
  /\ IF clips.items = <<>>
       THEN Throw(ValueError(MsgEmptyClipList)) /\ assembled' = "failed"
       ELSE \E outcome \in {"error", "no_music", "music_failed", "mixed"} :
              IF outcome = "error"
                THEN Throw(LibraryError("concatenate_videoclips")) /\ assembled' = "failed"
                ELSE /\ assembled' = IF outcome = "mixed" THEN "mixed" ELSE "narration"
                     /\ pc' = "p_before_render"
                     /\ UNCHANGED resultVars
  /\ UNCHANGED <<envVars, inputVars, audioVars, imgVars, intro, clips, j, clips_acc, outro,
                 renderCalls, files, callerVars>>

(***************************************************************************)
(* produce_complete_video, line 150.                                       *)
(***************************************************************************)
CheckBeforeRender ==
  /\ pc = "p_before_render"
  /\ IF kill
       THEN Throw(InterruptedException(MsgBeforeRender))
       ELSE pc' = "p_render" /\ UNCHANGED resultVars
  /\ UNCHANGED <<envVars, inputVars, audioVars, imgVars, clipVars, renderCalls, files,
                 callerVars>>

(***************************************************************************)
(* produce_complete_video, lines 152-155: write_videofile writes the file  *)
(* or fails.                                                               *)
(***************************************************************************)
Render ==
  /\ pc = "p_render"
  /\ renderCalls' = renderCalls + 1
  /\ \E outcome \in {"written", "error"} :
       /\ files' = IF outcome = "written" THEN files \cup {VideoPath} ELSE files
       /\ IF outcome = "written"
            THEN /\ ret' = [kind |-> "dict", filename |-> VideoPath]
                 /\ pc' = "ys_check_video"
                 /\ UNCHANGED <<lastError, exc>>
            ELSE Throw(LibraryError("write_videofile"))
  /\ UNCHANGED <<envVars, inputVars, audioVars, imgVars, clipVars, callerVars>>

(***************************************************************************)
(* create_and_upload_video, lines 50-65: no video is an error; otherwise   *)
(* the upload is not asked for, skipped without a client, or tried, and    *)
(* the result is a success in each case.                                   *)
(***************************************************************************)
YsCheckVideo ==
  /\ pc = "ys_check_video"
  /\ IF ret.kind # "dict"
       THEN /\ ysRet' = YsHandler(LibraryError("Video production failed or was cancelled."))
            /\ UNCHANGED uploaded
       ELSE /\ \E up \in {"not_requested", "no_client", "done", "failed"} : uploaded' = up
            /\ ysRet' = [success |-> TRUE, path |-> ret.filename]
  /\ pc' = "orch_return"
  /\ UNCHANGED <<envVars, inputVars, audioVars, imgVars, clipVars, renderCalls, files,
                 resultVars, ysExc, orchRet>>

(***************************************************************************)
(* create_and_upload_video, lines 67-69: InterruptedException is an        *)
(* Exception, so the except clause takes it.                               *)
(***************************************************************************)
YsExcept ==
  /\ pc = "ys_except"
  /\ ysRet' = YsHandler(exc)
  /\ pc' = "orch_return"
  /\ UNCHANGED <<envVars, inputVars, audioVars, imgVars, clipVars, renderCalls, files,
                 resultVars, uploaded, ysExc, orchRet>>

(***************************************************************************)
(* generate_single_youtube_video, lines 74-86.                             *)
(***************************************************************************)
OrchOutcome(r, e) ==
  IF e.type = "InterruptedException"
    THEN [success |-> FALSE, message |-> MsgUserCancelled]
    ELSE IF e.type # "none"
      THEN [success |-> FALSE, message |-> "A critical internal error occurred."]
      ELSE r

OrchReturn ==
  /\ pc = "orch_return"
  /\ orchRet' = OrchOutcome(ysRet, ysExc)
  /\ pc' = "done"
  /\ UNCHANGED <<envVars, inputVars, audioVars, imgVars, clipVars, renderCalls, files,
                 resultVars, uploaded, ysExc, ysRet>>

Next ==
  \/ trigger_kill_switch /\ UNCHANGED besideVars
  \/ OrchStart /\ UNCHANGED besideVars
  \/ YsGenerateContent /\ UNCHANGED besideVars
  \/ ProducerStart /\ UNCHANGED besideVars
  \/ ValidateScript /\ UNCHANGED besideVars
  \/ AudioCheck /\ UNCHANGED besideVars
  \/ AudioClean /\ UNCHANGED besideVars
  \/ AudioTTS /\ UNCHANGED besideVars
  \/ AudioResult /\ UNCHANGED besideVars
  \/ CheckAfterAudio /\ UNCHANGED besideVars
  \/ LoadAudio /\ UNCHANGED besideVars
  \/ SelectImageSource /\ UNCHANGED besideVars
  \/ ImgLoop /\ UNCHANGED besideVars
  \/ GenRequest /\ UNCHANGED besideVars
  \/ SearchRequest /\ UNCHANGED besideVars
  \/ Download /\ UNCHANGED besideVars
  \/ CheckAfterImages /\ UNCHANGED besideVars
  \/ BuildIntro /\ UNCHANGED besideVars
  \/ ContentClips /\ UNCHANGED besideVars
  \/ ClipLoop /\ UNCHANGED besideVars
  \/ ClipMake /\ UNCHANGED besideVars
  \/ BuildOutro /\ UNCHANGED besideVars
  \/ Assemble /\ UNCHANGED besideVars
  \/ CheckBeforeRender /\ UNCHANGED besideVars
  \/ Render /\ UNCHANGED besideVars
  \/ YsCheckVideo /\ UNCHANGED besideVars
  \/ YsExcept /\ UNCHANGED besideVars
  \/ OrchReturn /\ UNCHANGED besideVars

\* one call of generate_single_youtube_video; no other thread is inside a run
SpecInit == Init /\ RunsIdle /\ TimelineIdle /\ OthersIdle

Spec == SpecInit /\ [][Next]_allVars

(***************************************************************************)
(* Properties of produce_complete_video and its callers.                   *)
(***************************************************************************)
\* the call of produce_complete_video has returned or raised
ProducerEnded == ret.kind # "unset" \/ exc.type # "none"

\* a checkpoint read the kill switch as set
Cancelled == lastError.type = "InterruptedException"

ImageRequests == genRequests + searchRequests + downloads

\* stage k of the pipeline has begun to act
StageStarted(k) ==
  CASE k = 2 -> ttsCalls > 0
    [] k = 3 -> main_audio = "loaded" \/ ImageRequests > 0 \/ image_paths.kind = "list"
    [] k = 4 -> intro \/ clips.kind = "list" \/ clips_acc # <<>> \/ outro
    [] k = 5 -> assembled # "no"
    [] k = 6 -> renderCalls > 0 \/ VideoPath \in files

NotStartedFrom(k) == \A s \in k..6 : ~StageStarted(s)

\* what the stages 2 to 6 make
StageEffects ==
  <<ttsCalls, audio_file, main_audio, genRequests, searchRequests, downloads, paths_acc,
    image_paths, intro, clips, clips_acc, outro, assembled, renderCalls, files>>

\* the script of the package is missing or flattens to the empty string
FlattensToEmpty(script) ==
  IF script.kind = "none" THEN TRUE ELSE Flatten(script) = <<>>

\* C1: when produce_complete_video has ended, every local file the call made is
\* deleted; after a success only the rendered video file exists.
C1_TemporaryFilesDeleted ==
  ProducerEnded => files \subseteq (IF ret.kind = "dict" THEN {VideoPath} ELSE {})

\* C2: when a checkpoint read the kill switch as set, that InterruptedException
\* leaves produce_complete_video and the call returns nothing, neither the failure
\* value None nor a result with a filename.
C2_CancelledPropagates ==
  Cancelled => exc = lastError /\ ret.kind = "unset"

C2_Witness ==
  pc = "done" /\ Cancelled /\ lastError.msg = MsgBeforeRender /\ exc = lastError

\* C3: once a checkpoint read the kill switch as set, no stage acts any more and
\* nothing of the stages from that checkpoint on exists: a cancellation right
\* after the narration leaves no image request, no clip and no render.
C3_NothingAfterCancellation ==
  /\ [](/\ lastError.msg \in {MsgBeforeStart, MsgAudioCancelled}
             => NotStartedFrom(2) /\ files = {}
        /\ lastError.msg = MsgAfterAudio
             => ImageRequests = 0 /\ image_paths.kind = "unset" /\ NotStartedFrom(4)
        /\ lastError.msg \in {MsgGenCancelled, MsgSearchCancelled, MsgAfterImages}
             => NotStartedFrom(4)
        /\ lastError.msg = MsgClipsCancelled => ~outro /\ NotStartedFrom(5)
        /\ lastError.msg = MsgBeforeRender => NotStartedFrom(6))
  /\ [][Cancelled => UNCHANGED StageEffects]_vars

C3_Witness ==
  pc = "done" /\ lastError.msg = MsgAfterAudio /\ audio_file.kind = "path"

\* C4: for every stage i from 1 to 5, while a kill switch set during stage i is
\* still set, stage i+1 has not started.
C4_CheckpointAtEveryBoundary ==
  \A s \in 1..5 : kill /\ killStage = s => ~StageStarted(s + 1)

\* C5: an image request is issued only after the narration file is made and
\* loaded, a timeline segment is built only after image sourcing has returned,
\* and no earlier stage acts again once a later one has.
C5_StagesInOrder ==
  /\ [](/\ ImageRequests > 0 => audio_file.kind = "path" /\ main_audio = "loaded"
        /\ StageStarted(4) \/ StageStarted(5) \/ StageStarted(6)
             => image_paths.kind = "list" /\ audio_file.kind = "path")
  /\ [][/\ ImageRequests > 0 => UNCHANGED <<ttsCalls, audio_file, main_audio>>
        /\ image_paths.kind = "list"
             => UNCHANGED <<genRequests, searchRequests, downloads, paths_acc, image_paths>>
        /\ assembled # "no" => UNCHANGED <<intro, clips, clips_acc, outro>>]_vars

C5_Witness ==
  /\ ret.kind = "dict"
  /\ ImageRequests >= 2
  /\ Len(image_paths.items) = 2
  /\ Len(clips.items) = 2

\* C6: when generate_script_audio has returned None, no image request is issued,
\* no clip is built and nothing is rendered, and produce_complete_video returns
\* the failure value for the error 'Audio generation failed.'.
C6_NoAudioIsFatal ==
  audio_file.kind = "None" =>
    /\ ImageRequests = 0
    /\ NotStartedFrom(3)
    /\ pc # "p_audio_result" =>
         ret.kind = "None" /\ exc.type = "none" /\ lastError = ValueError(MsgAudioFailed)

C6_Witness ==
  pc = "done" /\ audio_file.kind = "None" /\ ttsCalls = 1 /\ ret.kind = "None"

\* C7: a call for a package whose script flattens to the empty string that is not
\* cancelled fails with the validation error, before the narration engine is
\* called, an image is requested or anything is rendered.
C7_EmptyScriptIsValidationError ==
  ProducerEnded /\ FlattensToEmpty(content.script) /\ ~Cancelled =>
    /\ lastError = ValueError(MsgScriptEmpty)
    /\ ret.kind = "None"
    /\ NotStartedFrom(2)
    /\ ImageRequests = 0

\* C8: an error other than a cancellation that a library call raises inside
\* produce_complete_video does not leave the call, and the value returned is a
\* failure that carries that error.
C8_FailureCarriesCause ==
  lastError.type = "Exception" =>
    /\ exc.type = "none"
    /\ ret.kind = "failure"
    /\ ret.cause = lastError

\* C9: a call whose narration was made, that was not cancelled and in which no
\* library call outside image handling failed, returns a video; with no image at
\* all the video has the one solid colour content clip.
C9_ImageFailuresNeverFail ==
  ProducerEnded /\ audio_file.kind = "path" /\ ~Cancelled /\ lastError.type # "Exception" =>
    /\ ret.kind = "dict"
    /\ image_paths.items = <<>> => clips.items = <<[kind |-> "color"]>>

\* C10: generate_single_youtube_video returns a success with a video reference, or
\* the cancelled outcome 'Operation Cancelled by User.', or a failure with another
\* message; it returns the cancelled outcome exactly when a checkpoint read the
\* kill switch as set.
C10_ThreeOutcomes ==
  pc = "done" =>
    /\ IF orchRet.success
         THEN DOMAIN orchRet = {"success", "path"} /\ orchRet.path = VideoPath
         ELSE DOMAIN orchRet = {"success", "message"}
    /\ Cancelled <=> (~orchRet.success /\ orchRet.message = MsgUserCancelled)


(***************************************************************************)
(* Runs in one process: a UI thread calling generate_single_youtube_video  *)
(* and the scheduler thread calling run_single_automation_cycle, over the  *)
(* same MainOrchestrator (app.py caches one for every session), so over    *)
(* one kill switch, one VideoProducerService and one set of directories.   *)
(* Both runs ask for generated images and the API key is configured.       *)
(***************************************************************************)
MsgProductionFailed == "Video production failed or was cancelled."

MsgNoContent == "Failed to generate content package."

AudioFile(stamp) == [kind |-> "script_audio", index |-> 0, stamp |-> stamp]

ImageFile(n, stamp) == [kind |-> "ai_image", index |-> n, stamp |-> stamp]

VideoFile(stamp) == [kind |-> "video", index |-> 0, stamp |-> stamp]

\* the thread is inside produce_complete_video
InProducer(t) ==
  rpc[t] \in {"p_start", "p_audio", "p_after_audio", "p_images", "p_after_images",
              "p_assemble", "p_before_render", "p_render"}

\* the thread's run has a checkpoint of the producer ahead of it: it is producing
\* the content package or is inside produce_complete_video before line 150
AwaitsCheckpoint(t) == rpc[t] = "ys_content" \/ (InProducer(t) /\ rpc[t] # "p_render")

\* create_and_upload_video returns r, lines 65 and 67-69
YsReturns(t, r) ==
  /\ rresult' = [rresult EXCEPT ![t] = r]
  /\ rpc' = [rpc EXCEPT ![t] = "caller"]

\* a checkpoint raises InterruptedException(m): re-raised at lines 157-159 and
\* caught by the except clause of create_and_upload_video
RunCancelled(t, m) ==
  /\ observed' = [observed EXCEPT ![t] = TRUE]
  /\ YsReturns(t, [success |-> FALSE, message |-> m])

\* produce_complete_video returns None, lines 160-164 and line 51
RunFailed(t) ==
  /\ YsReturns(t, [success |-> FALSE, message |-> MsgProductionFailed])
  /\ UNCHANGED observed

RunGoes(t, p) ==
  /\ rpc' = [rpc EXCEPT ![t] = p]
  /\ UNCHANGED <<observed, rresult>>

\* datetime.now() moves on
Tick ==
  /\ clock < MaxClock
  /\ clock' = clock + 1
  /\ UNCHANGED <<kill, restVars, is_running, stats, cycles, rpc, rk, rout, rfiles,
                 observed, rresult>>

\* the STOP button, app.py line 64
RunsStopRequest ==
  /\ ~kill
  /\ kill' = TRUE
  /\ targeted' = [t \in Threads |-> IF AwaitsCheckpoint(t) THEN cycles ELSE NoStamp]
  /\ UNCHANGED <<restFrozen, runVars>>

\* AutomationScheduler.start, lines 71-79
start ==
  /\ ~is_running
  /\ is_running' = TRUE
  /\ UNCHANGED <<kill, restVars, stats, cycles, clock, rpc, rk, rout, rfiles,
                 observed, rresult>>



schedVars == <<is_running, stats, cycles>>

NewRun(t) ==
  /\ rpc' = [rpc EXCEPT ![t] = "ys_content"]
  /\ UNCHANGED <<rk, rout, rfiles, observed, rresult>>

\* generate_single_youtube_video, lines 72-75: reset_kill_switch, then the call
UiBegin ==
  /\ rpc["ui"] = "idle"
  /\ kill' = FALSE
  /\ NewRun("ui")
  /\ UNCHANGED <<restVars, schedVars, clock>>

\* schedule.run_pending() finds the job due: run_single_automation_cycle, lines 40-49
CycleBegin ==
  /\ is_running
  /\ cycles < MaxCycles
  /\ rpc["sched"] = "idle"
  /\ NewRun("sched")
  /\ UNCHANGED <<kill, restVars, schedVars, clock>>

\* create_and_upload_video, lines 38-44
RunContent(t) ==
  /\ rpc[t] = "ys_content"
  /\ \E package \in BOOLEAN :
       IF package
         THEN RunGoes(t, "p_start")
         ELSE /\ YsReturns(t, [success |-> FALSE, message |-> MsgNoContent])
              /\ UNCHANGED observed
  /\ UNCHANGED <<kill, restVars, schedVars, clock, rk, rout, rfiles>>

\* produce_complete_video, lines 120-127
RunProducerStart(t) ==
  /\ rpc[t] = "p_start"
  /\ IF kill
       THEN RunCancelled(t, MsgBeforeStart)
       ELSE \E valid \in BOOLEAN :
              IF valid THEN RunGoes(t, "p_audio") ELSE RunFailed(t)
  /\ UNCHANGED <<kill, restVars, schedVars, clock, rk, rout, rfiles>>

\* generate_script_audio, lines 173-192, and line 130
RunAudio(t) ==
  /\ rpc[t] = "p_audio"
  /\ IF kill
       THEN RunCancelled(t, MsgAudioCancelled) /\ UNCHANGED rfiles
       ELSE \E saved \in BOOLEAN :
              IF saved
                THEN /\ rfiles' = [rfiles EXCEPT ![t] = @ \cup {AudioFile(clock)}]
                     /\ RunGoes(t, "p_after_audio")
                ELSE RunFailed(t) /\ UNCHANGED rfiles
  /\ UNCHANGED <<kill, restVars, schedVars, clock, rk, rout>>

\* lines 131-133
RunAfterAudio(t) ==
  /\ rpc[t] = "p_after_audio"
  /\ IF kill THEN RunCancelled(t, MsgAfterAudio) ELSE RunGoes(t, "p_images")
  /\ UNCHANGED <<kill, restVars, schedVars, clock, rk, rout, rfiles>>

\* _generate_images_with_stability, lines 96-116: one turn of the loop, or its end
\* when the package has no further prompt
RunImage(t) ==
  /\ rpc[t] = "p_images"
  /\ \E prompt \in BOOLEAN :
       IF ~prompt
         THEN RunGoes(t, "p_after_images") /\ UNCHANGED <<rk, rfiles>>
         ELSE /\ rk[t] < MaxRunPrompts
              /\ IF kill
                   THEN RunCancelled(t, MsgGenCancelled) /\ UNCHANGED <<rk, rfiles>>
                   ELSE /\ \E saved \in BOOLEAN :
                             rfiles' = [rfiles EXCEPT ![t] =
                                          IF saved THEN @ \cup {ImageFile(rk[t], clock)} ELSE @]
                        /\ rk' = [rk EXCEPT ![t] = @ + 1]
                        /\ RunGoes(t, "p_images")
  /\ UNCHANGED <<kill, restVars, schedVars, clock, rout>>

\* line 138
RunAfterImages(t) ==
  /\ rpc[t] = "p_after_images"
  /\ IF kill THEN RunCancelled(t, MsgAfterImages) ELSE RunGoes(t, "p_assemble")
  /\ UNCHANGED <<kill, restVars, schedVars, clock, rk, rout, rfiles>>



\* lines 140-148: the clips (the loop of line 216 runs once per image), the
\* concatenation, the music, and the name of the output file
RunAssemble(t) ==
  /\ rpc[t] = "p_assemble"
  /\ IF kill /\ (\E f \in rfiles[t] : f.kind = "ai_image")
       THEN RunCancelled(t, MsgClipsCancelled) /\ UNCHANGED rout
       ELSE \E built \in BOOLEAN :
              IF built
                THEN /\ rout' = [rout EXCEPT ![t] = clock]
                     /\ RunGoes(t, "p_before_render")
                ELSE RunFailed(t) /\ UNCHANGED rout
  /\ UNCHANGED <<kill, restVars, schedVars, clock, rk, rfiles>>

\* line 150
RunBeforeRender(t) ==
  /\ rpc[t] = "p_before_render"
  /\ IF kill THEN RunCancelled(t, MsgBeforeRender) ELSE RunGoes(t, "p_render")
  /\ UNCHANGED <<kill, restVars, schedVars, clock, rk, rout, rfiles>>

\* lines 153-155, and create_and_upload_video lines 50-65
RunRender(t) ==
  /\ rpc[t] = "p_render"
  /\ \E written \in BOOLEAN :
       IF written
         THEN /\ rfiles' = [rfiles EXCEPT ![t] = @ \cup {VideoFile(rout[t])}]
              /\ YsReturns(t, [success |-> TRUE, message |-> ""])
              /\ UNCHANGED observed
         ELSE RunFailed(t) /\ UNCHANGED rfiles
  /\ UNCHANGED <<kill, restVars, schedVars, clock, rk, rout>>

\* the caller has its result: the locals of the run are gone
RunOver(t) ==
  /\ rpc' = [rpc EXCEPT ![t] = "idle"]
  /\ rk' = [rk EXCEPT ![t] = 0]
  /\ rout' = [rout EXCEPT ![t] = NoStamp]
  /\ rfiles' = [rfiles EXCEPT ![t] = {}]
  /\ observed' = [observed EXCEPT ![t] = FALSE]
  /\ rresult' = [rresult EXCEPT ![t] = NoResult]
  /\ UNCHANGED <<kill, restVars, clock>>

\* generate_single_youtube_video returns, lines 74-86
UiEnd ==
  /\ rpc["ui"] = "caller"
  /\ RunOver("ui")
  /\ UNCHANGED schedVars

\* run_single_automation_cycle, lines 57-69
CycleEnd ==
  /\ rpc["sched"] = "caller"
  /\ stats' = IF rresult["sched"].success
                THEN [stats EXCEPT !.videos_generated = @ + 1, !.videos_uploaded = @ + 1]
                ELSE [stats EXCEPT !.errors = @ + 1]
  /\ cycles' = cycles + 1
  /\ RunOver("sched")
  /\ UNCHANGED is_running

NextRuns ==
  \/ Tick
  \/ RunsStopRequest
  \/ start
  \/ UiBegin
  \/ CycleBegin
  \/ \E t \in Threads : RunContent(t)
  \/ \E t \in Threads : RunProducerStart(t)
  \/ \E t \in Threads : RunAudio(t)
  \/ \E t \in Threads : RunAfterAudio(t)
  \/ \E t \in Threads : RunImage(t)
  \/ \E t \in Threads : RunAfterImages(t)
  \/ \E t \in Threads : RunAssemble(t)
  \/ \E t \in Threads : RunBeforeRender(t)
  \/ \E t \in Threads : RunRender(t)
  \/ UiEnd
  \/ CycleEnd

\* the single-run pipeline stays idle with one fixed input
RunsInit ==
  /\ Init
  /\ ~kill
  /\ content = [script |-> NoScript, prompts |-> 0]
  /\ image_source = "ai_generated"
  /\ api_key
  /\ RunsIdle
  /\ TimelineIdle
  /\ OthersIdle

SpecRuns == RunsInit /\ [][NextRuns]_allVars



(***************************************************************************)
(* Properties of runs that share the orchestrator.                         *)
(***************************************************************************)
\* the thread's step ends its run: the caller takes the result
EndsRun(t) == rpc[t] = "caller" /\ rpc'[t] = "idle"

\* the thread's step begins a run
BeginsRun(t) == rpc[t] = "idle" /\ rpc'[t] # "idle"

\* C11: an automation cycle whose video production ended because a checkpoint
\* observed the kill switch does not increment the scheduler's stats['errors'].
C11_CancelledCycleIsNoError ==
  [][EndsRun("sched") /\ observed["sched"] => stats'.errors = stats.errors]_allVars



\* C12: the kill switch is cleared immediately before every production run
\* begins, through generate_single_youtube_video or through
\* run_single_automation_cycle: no run starts with the switch still set by an
\* earlier stop request.
C12_SwitchClearedBeforeEveryRun ==
  [][\A t \in Threads : BeginsRun(t) => ~kill']_allVars

\* C13: a scheduler-triggered cycle and a UI-triggered generation are never
\* inside produce_complete_video at the same time.
C13_RunsAreSerialized == ~(InProducer("ui") /\ InProducer("sched"))

\* C14: two runs that overlap in time never write the same narration, image or
\* video file path.
C14_ArtifactsArePrivate == rfiles["ui"] \cap rfiles["sched"] = {}



(***************************************************************************)
(* Timeline assembly with durations. Durations are exact fractions of a    *)
(* second: audio_duration / len(images) is kept as numerator and           *)
(* denominator.                                                            *)
(***************************************************************************)
Rat(n, d) == [num |-> n, den |-> d]

RatAdd(a, b) == Rat(a.num * b.den + b.num * a.den, a.den * b.den)

RatEq(a, b) == a.num * b.den = b.num * a.den

RatLess(a, b) == a.num * b.den < b.num * a.den

\* duration=3 of the intro, line 140
IntroDuration == 3

\* duration=5 of the outro, line 142
OutroDuration == 5

\* music_volume=0.1, line 227
music_volume == Rat(1, 10)

\* a clip of the timeline: image is the number of the image shown, or 0
Clip(k, n, d) == [kind |-> k, image |-> n, duration |-> d]

\* a track of a composite audio clip: fit tells how its duration was reached
Track(src, st, d, v, how) ==
  [source |-> src, start |-> st, duration |-> d, volume |-> v, fit |-> how]

RECURSIVE TotalDuration(_)
TotalDuration(cs) ==
  IF cs = <<>> THEN Rat(0, 1) ELSE RatAdd(Head(cs).duration, TotalDuration(Tail(cs)))

\* the loop of lines 215-224 from image k on: an image ImageClip cannot load is
\* skipped with a warning
RECURSIVE ImageClips(_, _, _, _)
ImageClips(k, n, bad, segment_duration) ==
  IF k > n THEN <<>>
  ELSE (IF k \in bad THEN <<>> ELSE <<Clip("image", k, segment_duration)>>)
         \o ImageClips(k + 1, n, bad, segment_duration)

create_content_clips_NoFallback(n, bad, audio_duration) ==
  IF n = 0 THEN <<>>
  ELSE ImageClips(1, n, bad, Rat(audio_duration, n))

\* _create_content_clips_from_images, lines 209-225, while the kill switch is clear
create_content_clips_from_images(n, bad, audio_duration) ==
  IF n = 0 THEN <<Clip("color", 0, Rat(audio_duration, 1))>>
  ELSE ImageClips(1, n, bad, Rat(audio_duration, n))



Video(cs, tracks) ==
  [kind |-> "video", clips |-> cs, duration |-> TotalDuration(cs), audio |-> tracks]

\* concatenate_videoclips raised
NoVideo == [kind |-> "failed"]

\* the audio of a clip that starts at offset in a concatenation
Shifted(tracks, offset) ==
  [k \in 1..Len(tracks) |-> [tracks[k] EXCEPT !.start = RatAdd(@, offset)]]

\* line 144: concatenate_videoclips(content_clips, method="compose").set_audio(main_audio)
content_video(cs, audio_duration) ==
  IF cs = <<>> THEN NoVideo
  ELSE Video(cs, <<Track("narration", Rat(0, 1), Rat(audio_duration, 1), Rat(1, 1), "whole")>>)

\* line 145: concatenate_videoclips([intro, final_content_video, outro])
concatenate_final(first, middle, last) ==
  IF middle.kind = "failed" THEN NoVideo
  ELSE Video(<<first>> \o middle.clips \o <<last>>, Shifted(middle.audio, first.duration))

\* music.subclip(0, t_end)
subclip(track, t_end, v) == Track("music", Rat(0, 1), t_end, v, "trimmed")

\* audio_loop(music, duration=d): whole repetitions of the track, cut to d
audio_loop(track, d, v) == Track("music", Rat(0, 1), d, v, "looped")

fit_music_NoLoop(track, video_duration) ==
  IF RatLess(video_duration, Rat(track, 1))
    THEN subclip(track, video_duration, music_volume)
    ELSE Track("music", Rat(0, 1), Rat(track, 1), music_volume, "whole")

\* lines 232-238: volumex, then subclip when the track is longer than the video
\* and audio_loop otherwise
fit_music(track, video_duration) ==
  IF RatLess(video_duration, Rat(track, 1))
    THEN subclip(track, video_duration, music_volume)
    ELSE audio_loop(track, video_duration, music_volume)

add_background_music_Raises(video_clip, pool, track, error) ==
  IF pool = "empty" THEN video_clip
  ELSE IF pool = "missing" \/ error # "none" THEN NoVideo
  ELSE [video_clip EXCEPT !.audio = @ \o <<fit_music(track, video_clip.duration)>>]

\* _add_background_music, lines 227-244
add_background_music(video_clip, pool, track, error) ==
  IF pool = "empty" THEN video_clip
  ELSE IF pool = "missing" \/ error # "none" THEN video_clip
  ELSE [video_clip EXCEPT !.audio = @ \o <<fit_music(track, video_clip.duration)>>]



\* the states in which line 140 is about to run: the narration is loaded and
\* the images are sourced
TimelineInit ==
  /\ Init
  /\ ~kill
  /\ content = [script |-> NoScript, prompts |-> 0]
  /\ image_source = "ai_generated"
  /\ api_key
  /\ RunsIdle
  /\ OthersIdle
  /\ tpc = "intro"
  /\ narration \in 1..MaxNarration
  /\ images \in 0..MaxImages
  /\ unreadable \in SUBSET (1..images)
  /\ \/ music_pool \in {"missing", "empty"} /\ music_track = 0 /\ music_error = "none"
     \/ /\ music_pool = "tracks"
        /\ music_track \in 1..MaxMusic
        /\ music_error \in {"none", "load", "fit", "mix"}
  /\ intro_clip = Unset
  /\ content_clips = Unset
  /\ outro_clip = Unset
  /\ final_video = Unset
  /\ rendered = Unset

timelineInputs == <<narration, images, unreadable, music_pool, music_track, music_error>>

timelineFrozen == <<kill, pipelineVars, runVars, functionVars, batchVars, storageVars, batchFileVars,
                    automationVars, linkedinVars, targeted, timelineInputs>>

\* line 140
TlIntro ==
  /\ tpc = "intro"
  /\ intro_clip' = Clip("intro", 0, Rat(IntroDuration, 1))
  /\ tpc' = "content"
  /\ UNCHANGED <<timelineFrozen, content_clips, outro_clip, final_video, rendered>>

\* line 141
TlContentClips ==
  /\ tpc = "content"
  /\ content_clips' = List(create_content_clips_from_images(images, unreadable, narration))
  /\ tpc' = "outro"
  /\ UNCHANGED <<timelineFrozen, intro_clip, outro_clip, final_video, rendered>>

\* line 142
TlOutro ==
  /\ tpc = "outro"
  /\ outro_clip' = Clip("outro", 0, Rat(OutroDuration, 1))
  /\ tpc' = "concat"
  /\ UNCHANGED <<timelineFrozen, intro_clip, content_clips, final_video, rendered>>

\* lines 144-145; an empty list of clips raises, and the call ends at line 160
TlConcatenate ==
  /\ tpc = "concat"
  /\ final_video' = concatenate_final(intro_clip, content_video(content_clips.items, narration),
                                      outro_clip)
  /\ tpc' = IF final_video'.kind = "failed" THEN "failed" ELSE "music"
  /\ UNCHANGED <<timelineFrozen, intro_clip, content_clips, outro_clip, rendered>>

\* line 146
TlMusic ==
  /\ tpc = "music"
  /\ final_video' = add_background_music(final_video, music_pool, music_track, music_error)
  /\ tpc' = IF final_video'.kind = "failed" THEN "failed" ELSE "render"
  /\ UNCHANGED <<timelineFrozen, intro_clip, content_clips, outro_clip, rendered>>

\* lines 153-155: write_videofile writes the frames of final_video_with_music
TlRender ==
  /\ tpc = "render"
  /\ \E written \in BOOLEAN :
       IF written
         THEN rendered' = [kind |-> "file", duration |-> final_video.duration] /\ tpc' = "done"
         ELSE rendered' = Unset /\ tpc' = "failed"
  /\ UNCHANGED <<timelineFrozen, intro_clip, content_clips, outro_clip, final_video>>

NextTimeline ==
  \/ TlIntro
  \/ TlContentClips
  \/ TlOutro
  \/ TlConcatenate
  \/ TlMusic
  \/ TlRender

SpecTimeline == TimelineInit /\ [][NextTimeline]_allVars



(***************************************************************************)
(* Properties of the timeline.                                             *)
(***************************************************************************)
ClipsBuilt == content_clips.kind = "list"

NarrationSeconds == Rat(narration, 1)

\* where the content clips begin and end on the final timeline
ContentStart == intro_clip.duration

ContentEnd == RatAdd(intro_clip.duration, TotalDuration(content_clips.items))

RatLeq(a, b) == ~RatLess(b, a)

NarrationTracks == {k \in 1..Len(final_video.audio) : final_video.audio[k].source = "narration"}

MusicTracks == {k \in 1..Len(final_video.audio) : final_video.audio[k].source = "music"}

MusicUnavailable == music_pool # "tracks" \/ music_error # "none"

\* C15: for N > 0 images handed to _create_content_clips_from_images, every
\* content segment produced lasts narration / N and the segments produced sum
\* to the narration duration exactly.
C15_SegmentsSpanNarration ==
  ClipsBuilt /\ images > 0 =>
    /\ \A k \in 1..Len(content_clips.items) :
         RatEq(content_clips.items[k].duration, Rat(narration, images))
    /\ RatEq(TotalDuration(content_clips.items), NarrationSeconds)

\* C16: for no image, exactly one content segment is produced, a solid-color
\* background that lasts the whole narration.
C16_NoImageGivesOneColorClip ==
  ClipsBuilt /\ images = 0 =>
    /\ Len(content_clips.items) = 1
    /\ content_clips.items[1].kind = "color"
    /\ RatEq(content_clips.items[1].duration, NarrationSeconds)

C16_Witness ==
  /\ tpc = "done"
  /\ images = 0
  /\ Len(content_clips.items) = 1
  /\ RatEq(rendered.duration, Rat(IntroDuration + narration + OutroDuration, 1))

\* C17: a successful produce_complete_video renders a video that lasts
\* intro duration (3) + narration duration + outro duration (5), for any number
\* of images.
C17_RenderedDuration ==
  rendered.kind = "file" =>
    RatEq(rendered.duration, Rat(IntroDuration + narration + OutroDuration, 1))

\* C18: the final timeline is the intro, the content segments in the order of
\* the images, the outro; the narration is attached to the content span only,
\* so that intro and outro carry no narration.
C18_IntroContentOutro ==
  final_video.kind = "video" =>
    /\ final_video.clips = <<intro_clip>> \o content_clips.items \o <<outro_clip>>
    /\ \A a, b \in 1..Len(content_clips.items) :
         a < b => content_clips.items[a].image < content_clips.items[b].image
    /\ NarrationTracks # {}
    /\ \A k \in NarrationTracks :
         /\ RatEq(final_video.audio[k].start, ContentStart)
         /\ RatLeq(RatAdd(final_video.audio[k].start, final_video.audio[k].duration),
                   ContentEnd)



\* C19: background music never fails a run: when the pool is missing or empty,
\* or a step of loading, fitting or mixing the track raises,
\* _add_background_music returns the video with its audio unchanged and the
\* run goes on to the render.
C19_MusicNeverFailsRun ==
  [][tpc = "music" /\ MusicUnavailable =>
       /\ final_video' = final_video
       /\ tpc' = "render"]_allVars

C19_Witness ==
  /\ tpc = "done"
  /\ music_pool = "tracks"
  /\ music_error = "mix"
  /\ MusicTracks = {}
  /\ \A k \in NarrationTracks : RatEq(final_video.audio[k].duration, NarrationSeconds)

\* C20: when a track is mixed, the music under the video lasts exactly as long
\* as the final video (looped when the track is shorter, trimmed when it is
\* longer), only the music is scaled to the fixed low volume, and the narration
\* keeps its volume.
C20_MusicFitsVideo ==
  final_video.kind = "video" /\ MusicTracks # {} =>
    /\ \A k \in MusicTracks :
         LET m == final_video.audio[k]
         IN  /\ RatEq(m.duration, final_video.duration)
             /\ RatEq(m.start, Rat(0, 1))
             /\ RatEq(m.volume, Rat(1, 10))
             /\ RatLess(Rat(music_track, 1), final_video.duration) => m.fit = "looped"
             /\ RatLess(final_video.duration, Rat(music_track, 1)) => m.fit = "trimmed"
    /\ Cardinality(MusicTracks) = 1
    /\ \A k \in NarrationTracks :
         /\ RatEq(final_video.audio[k].volume, Rat(1, 1))
         /\ RatEq(final_video.audio[k].duration, NarrationSeconds)
    /\ NarrationTracks # {}

C20_Witness ==
  /\ tpc = "done"
  /\ \E k \in MusicTracks : final_video.audio[k].fit = "trimmed"



(***************************************************************************)
(* Properties of image sourcing, under Spec.                               *)
(***************************************************************************)
\* the prompt an image path was saved for
PromptOf(path) == path[2]

\* a list of image paths holds successes only, one per prompt at most, in the
\* order of the prompts
OrderedSuccesses(paths) ==
  /\ Len(paths) <= content.prompts
  /\ \A a \in 1..Len(paths) :
       /\ PromptOf(paths[a]) \in 0..(content.prompts - 1)
       /\ paths[a] \in files
  /\ \A a, b \in 1..Len(paths) : a < b => PromptOf(paths[a]) < PromptOf(paths[b])

\* the call ended inside the sourcing function
EndedInSourcing ==
  main_audio = "loaded" /\ image_paths.kind = "unset" /\ lastError.type # "none"

\* C21: image sourcing, generated or searched, returns at most one image per
\* prompt, in the order of the prompts that succeeded, shorter than the input
\* on partial failure and empty on total failure, and raises nothing but the
\* cancellation.
C21_SourcingSkipsFailures ==
  /\ OrderedSuccesses(paths_acc)
  /\ image_paths.kind = "list" => OrderedSuccesses(image_paths.items)
  /\ EndedInSourcing => lastError.type = "InterruptedException"

C21_Witness ==
  /\ content.prompts = 2
  /\ image_paths.kind = "list"
  /\ image_paths.items = <<ImagePath(1)>>
  /\ lastError.type = "none"

\* C22: during image sourcing the kill switch is read before each external
\* call (generation request, search request, download): once the switch is
\* set, at most the one call whose check had already passed is still issued.
C22_CheckBeforeEachRequest == kill => ImageRequests <= killRequests + 1



C24_NoImplicitSubstitution ==
  /\ image_source = "ai_generated" => searchRequests = 0 /\ downloads = 0
  /\ image_source = "web_search" => genRequests = 0

(***************************************************************************)
(* Properties of generate_script_audio and of the kill switch, under Spec. *)
(***************************************************************************)
\* C26: with the kill switch not set generate_script_audio never raises: it
\* returns None when the engine is missing, when the engine call fails and when
\* the cleaned text is empty, and the narration file otherwise.
C26_AudioReturnsNoneOrFile ==
  /\ pc = "p_audio_result" =>
       /\ lastError.type = "none"
       /\ audio_file.kind \in {"None", "path"}
       /\ audio_file.kind = "path" <=> AudioPath \in files
       /\ clean_script_text(script_for_audio) = <<>> => audio_file.kind = "None" /\ ttsCalls = 0
  /\ audio_file.kind = "unset" /\ lastError.type # "none" =>
       /\ lastError.msg \in {MsgBeforeStart, MsgScriptEmpty, MsgAudioCancelled}
       /\ lastError.msg = MsgAudioCancelled => kill

C26_Witness ==
  /\ pc = "p_audio_result"
  /\ ~kill
  /\ ttsCalls = 1
  /\ audio_file.kind = "None"

\* C28: no step of VideoProducerService sets or clears the kill switch: the
\* flag changes only in trigger_kill_switch, taken by another thread, and in the
\* reset_kill_switch that opens generate_single_youtube_video.
C28_ProducerOnlyReadsSwitch ==
  [][kill' # kill => \/ pc = "idle" /\ pc' = "ys_content" /\ ~kill'
                     \/ pc' = pc /\ kill']_vars

C28_Witness ==
  /\ pc = "done"
  /\ kill
  /\ lastError.msg = MsgBeforeRender
  /\ renderCalls = 0



(***************************************************************************)
(* Functions on their own: no run and no assembly is in progress.          *)
(***************************************************************************)
Quiet ==
  /\ Init
  /\ ~kill
  /\ content = [script |-> NoScript, prompts |-> 0]
  /\ image_source = "ai_generated"
  /\ api_key
  /\ RunsIdle
  /\ TimelineIdle
  /\ BatchIdle
  /\ StorageIdle
  /\ BatchFilesIdle
  /\ AutomationIdle
  /\ LinkedInIdle

quietVars == <<kill, pipelineVars, runVars, timelineVars, batchVars, storageVars, batchFileVars,
               automationVars, linkedinVars, targeted>>

(***************************************************************************)
(* The resize of an image to the frame, lines 218-220.                     *)
(***************************************************************************)
\* the long and the short side of target_resolution, line 123
FrameLong == 1920

FrameShort == 1080

\* (1920, 1080), or (1080, 1920) for aspect ratio 9:16
Resolutions == {<<FrameLong, FrameShort>>, <<FrameShort, FrameLong>>}

\* source images have sides that are multiples of this many pixels
SideUnit == 540

ImageSizes == {<<SideUnit * w, SideUnit * h>> : w, h \in 1..MaxSide}

\* clip.resize(height=h): the width follows in proportion, cut to a whole pixel
resize_height(size, h) == <<(size[1] * h) \div size[2], h>>

\* clip.resize(width=w)
resize_width(size, w) == <<w, (size[2] * w) \div size[1]>>

\* line 219
resize_to_frame(size, frame) ==
  IF size[2] < frame[2] THEN resize_height(size, frame[2]) ELSE resize_width(size, frame[1])

Min(a, b) == IF a < b THEN a ELSE b

\* line 220: the resized image centred on a frame of the target size; covered is
\* the part of the frame the image hides
composite(size, frame) ==
  [kind |-> "clip", size |-> frame,
   covered |-> <<Min(size[1], frame[1]), Min(size[2], frame[2])>>]

ResizeInit ==
  /\ Quiet
  /\ resolution \in Resolutions
  /\ image_size \in ImageSizes
  /\ clip_resized = <<>>
  /\ final_clip = Unset
  /\ script_text = <<>>
  /\ cleaned_script = Unset

\* line 219
ResizeClip ==
  /\ clip_resized = <<>>
  /\ clip_resized' = resize_to_frame(image_size, resolution)
  /\ UNCHANGED <<quietVars, resolution, image_size, final_clip, script_text, cleaned_script>>

\* line 220
CompositeClip ==
  /\ clip_resized # <<>>
  /\ final_clip = Unset
  /\ final_clip' = composite(clip_resized, resolution)
  /\ UNCHANGED <<quietVars, resolution, image_size, clip_resized, script_text, cleaned_script>>

NextResize ==
  \/ ResizeClip
  \/ CompositeClip

SpecResize == ResizeInit /\ [][NextResize]_allVars

\* C25: for every source image size and both target frames the image placed in
\* a content segment covers the whole frame after the resize: its width and its
\* height are at least the frame's, so no background shows.
C25_ImageCoversFrame ==
  final_clip.kind = "clip" =>
    /\ clip_resized[1] >= resolution[1]
    /\ clip_resized[2] >= resolution[2]
    /\ final_clip.covered = resolution



(***************************************************************************)
(* _clean_script_text on its own, lines 166-170.                           *)
(***************************************************************************)
\* the characters of a script: blank, heading marker, emphasis marker, letter, newline
TextChars == Chars \cup {"*"}

\* the argument once line 167 has joined a list into one string
Texts == UNION {[1..k -> TextChars] : k \in 0..MaxTextLen}

Text(s) == [kind |-> "text", text |-> s]

CleanInit ==
  /\ Quiet
  /\ resolution = <<>>
  /\ image_size = <<>>
  /\ clip_resized = <<>>
  /\ final_clip = Unset
  /\ script_text \in Texts
  /\ cleaned_script = Unset

\* lines 168-170
CleanScript ==
  /\ cleaned_script = Unset
  /\ cleaned_script' = Text(clean_script_text(script_text))
  /\ UNCHANGED <<quietVars, resolution, image_size, clip_resized, final_clip, script_text>>

NextClean ==
  \/ CleanScript

SpecClean == CleanInit /\ [][NextClean]_allVars

\* a line whose first non-blank characters are a structural marker
IsMarkupLine(line) ==
  StartsWith(LStrip(line), <<"#">>) \/ StartsWith(LStrip(line), <<"*", "*">>)

\* the non-blank lines that are not markup lines, stripped, in their order
RECURSIVE SpokenLines(_)
SpokenLines(lines) ==
  IF lines = <<>> THEN <<>>
  ELSE (IF Strip(Head(lines)) # <<>> /\ ~IsMarkupLine(Head(lines))
        THEN <<Strip(Head(lines))>> ELSE <<>>) \o SpokenLines(Tail(lines))

\* C27: the text handed to the TTS engine holds nothing of a markup line: every
\* line whose first non-blank characters are '#' or '**' is removed by
\* _clean_script_text, and the remaining non-blank lines are kept in order.
C27_MarkupLinesRemoved ==
  cleaned_script.kind = "text" =>
    cleaned_script.text = Join(<<" ">>, SpokenLines(Split(script_text)))



(***************************************************************************)
(* The astrology batch: MainOrchestrator.generate_all_astrology_posts and  *)
(* InstagramService.create_daily_astrology_post_for_all_signs, with the    *)
(* STOP button of the UI pressed while it runs.                            *)
(***************************************************************************)
BatchInit ==
  /\ Init
  /\ ~kill
  /\ content = [script |-> NoScript, prompts |-> 0]
  /\ image_source = "ai_generated"
  /\ api_key
  /\ RunsIdle
  /\ TimelineIdle
  /\ FunctionsIdle
  /\ StorageIdle
  /\ BatchIdle
  /\ BatchFilesIdle
  /\ AutomationIdle
  /\ LinkedInIdle

batchFrozen == <<pipelineVars, runVars, timelineVars, functionVars, storageVars, automationVars,
                 linkedinVars, targeted>>

\* the loop moves to the next sign, or its list is exhausted and the batch returns
\* all_posts through the orchestrator's try block
NextSign(posts) ==
  /\ all_posts' = posts
  /\ IF sign < MaxSigns
     THEN bpc' = "data" /\ sign' = sign + 1 /\ batchRet' = batchRet
     ELSE bpc' = "done" /\ sign' = sign /\ batchRet' = List(posts)

\* the button of app.py and the orchestrator's first line: the switch is cleared
\* and the loop is entered
BatchBegin ==
  /\ bpc = "idle"
  /\ kill' = FALSE
  /\ bpc' = "data"
  /\ sign' = 1
  /\ UNCHANGED <<all_posts, batchSteps, batchKillSteps, batchRet, batchFileVars, batchFrozen>>

\* STOP GENERATION while the batch runs
BatchTrigger ==
  /\ bpc \notin {"idle", "done"}
  /\ ~kill
  /\ kill' = TRUE
  /\ batchKillSteps' = batchSteps
  /\ UNCHANGED <<bpc, sign, all_posts, batchSteps, batchRet, batchFileVars, batchFrozen>>

\* step 1: the sign's data is requested; without data the sign is skipped
BatchData ==
  /\ bpc = "data"
  /\ batchSteps' = batchSteps + 1
  /\ visited' = Append(visited, sign)
  /\ \E ok \in BOOLEAN :
       IF ok
       THEN bpc' = "caption" /\ UNCHANGED <<sign, all_posts, batchRet>>
       ELSE NextSign(all_posts)
  /\ UNCHANGED <<kill, batchKillSteps, temp_images, batchFrozen>>

\* step 2: the caption is requested from the language model; it always yields a text
BatchCaption ==
  /\ bpc = "caption"
  /\ batchSteps' = batchSteps + 1
  /\ bpc' = "image"
  /\ UNCHANGED <<kill, sign, all_posts, batchKillSteps, batchRet, batchFileVars, batchFrozen>>

\* step 3 with a failed download ending the loop instead of skipping the sign
BatchImage_FailureEndsBatch ==
  /\ bpc = "image"
  /\ batchSteps' = batchSteps + 1
  /\ \E ok \in BOOLEAN :
       IF ok
       THEN /\ bpc' = "post"
            /\ temp_images' = temp_images \cup {sign}
            /\ UNCHANGED <<sign, all_posts, batchRet>>
       ELSE /\ bpc' = "done"
            /\ batchRet' = List(all_posts)
            /\ UNCHANGED <<sign, all_posts, temp_images>>
  /\ UNCHANGED <<kill, batchKillSteps, visited, batchFrozen>>

\* step 3: the background image is searched and downloaded to
\* temp_pexels_<sign>.jpg; without it the sign is skipped
BatchImage ==
  /\ bpc = "image"
  /\ batchSteps' = batchSteps + 1
  /\ \E ok \in BOOLEAN :
       IF ok
       THEN /\ bpc' = "post"
            /\ temp_images' = temp_images \cup {sign}
            /\ UNCHANGED <<sign, all_posts, batchRet>>
       ELSE /\ NextSign(all_posts)
            /\ UNCHANGED temp_images
  /\ UNCHANGED <<kill, batchKillSteps, visited, batchFrozen>>

\* step 4 with the temporary image removed only when the post was made
BatchPost_RemoveOnSuccess ==
  /\ bpc = "post"
  /\ batchSteps' = batchSteps + 1
  /\ \E ok \in BOOLEAN :
       /\ NextSign(IF ok THEN Append(all_posts, sign) ELSE all_posts)
       /\ temp_images' = IF ok THEN temp_images \ {sign} ELSE temp_images
  /\ UNCHANGED <<kill, batchKillSteps, visited, batchFrozen>>

\* step 4: the post image is composed and stored, a post that was made is
\* appended, and the temporary image is removed in either case
BatchPost ==
  /\ bpc = "post"
  /\ batchSteps' = batchSteps + 1
  /\ \E ok \in BOOLEAN :
       NextSign(IF ok THEN Append(all_posts, sign) ELSE all_posts)
  /\ temp_images' = temp_images \ {sign}
  /\ UNCHANGED <<kill, batchKillSteps, visited, batchFrozen>>

NextBatch ==
  \/ BatchBegin
  \/ BatchTrigger
  \/ BatchData
  \/ BatchCaption
  \/ BatchImage
  \/ BatchPost

SpecBatch == BatchInit /\ [][NextBatch]_allVars

\* C29: trigger_kill_switch stops the long-running task in progress: once it has
\* been called during the astrology batch the batch halts at its next step,
\* starts no further external generation step (at most the one that had passed
\* its check), and ends with the cancelled outcome, an empty list.
C29_KillSwitchStopsTask ==
  (kill /\ bpc # "idle") =>
    /\ batchSteps <= batchKillSteps + 1
    /\ bpc = "done" => batchRet = List(<<>>)



(***************************************************************************)
(* storage_service: the lazily created client, called from the UI thread   *)
(* and from the scheduler's thread.                                        *)
(***************************************************************************)
StorageOps == {"get_client", "upload_file", "get_file_content"}

StorageInit ==
  /\ Init
  /\ ~kill
  /\ content = [script |-> NoScript, prompts |-> 0]
  /\ image_source = "ai_generated"
  /\ api_key
  /\ RunsIdle
  /\ TimelineIdle
  /\ FunctionsIdle
  /\ BatchIdle
  /\ BatchFilesIdle
  /\ AutomationIdle
  /\ LinkedInIdle
  /\ configured \in BOOLEAN
  /\ client = 0
  /\ constructed = 0
  /\ spc = [t \in Threads |-> "idle"]
  /\ sop = [t \in Threads |-> "none"]
  /\ screated = [t \in Threads |-> 0]
  /\ scalls = [t \in Threads |-> 0]
  /\ received = {}

storageFrozen == <<kill, pipelineVars, runVars, timelineVars, functionVars, batchVars, batchFileVars,
                   automationVars, linkedinVars, targeted>>

\* a thread calls get_client, or upload_file or get_file_content, whose first
\* line calls get_client
StorageCall(t) ==
  /\ spc[t] = "idle"
  /\ scalls[t] < MaxStorageCalls
  /\ \E op \in StorageOps : sop' = [sop EXCEPT ![t] = op]
  /\ scalls' = [scalls EXCEPT ![t] = @ + 1]
  /\ spc' = [spc EXCEPT ![t] = "check"]
  /\ UNCHANGED <<configured, client, constructed, screated, received, storageFrozen>>

\* lines 23-28: the test of the global, and of the settings when it is None; with
\* a setting missing get_client returns None and the caller returns None too
CheckClient(t) ==
  /\ spc[t] = "check"
  /\ spc' = [spc EXCEPT ![t] = IF client # 0 THEN "return"
                                ELSE IF configured THEN "create" ELSE "idle"]
  /\ UNCHANGED <<configured, client, constructed, sop, screated, scalls, received, storageFrozen>>

\* lines 30-35, right-hand side: session.client(...) builds a new client
CreateClient(t) ==
  /\ spc[t] = "create"
  /\ constructed' = constructed + 1
  /\ screated' = [screated EXCEPT ![t] = constructed + 1]
  /\ spc' = [spc EXCEPT ![t] = "assign"]
  /\ UNCHANGED <<configured, client, sop, scalls, received, storageFrozen>>

\* line 31: the new client is stored in the global
AssignClient(t) ==
  /\ spc[t] = "assign"
  /\ client' = screated[t]
  /\ spc' = [spc EXCEPT ![t] = "return"]
  /\ UNCHANGED <<configured, constructed, sop, screated, scalls, received, storageFrozen>>

\* line 37: the global is read and returned
ReturnClient(t) ==
  /\ spc[t] = "return"
  /\ received' = received \cup {client}
  /\ spc' = [spc EXCEPT ![t] = IF sop[t] = "get_client" THEN "idle" ELSE "use"]
  /\ UNCHANGED <<configured, client, constructed, sop, screated, scalls, storageFrozen>>

\* lines 44-56 and 63-74: the caller uses the client it received and returns
UseClient(t) ==
  /\ spc[t] = "use"
  /\ spc' = [spc EXCEPT ![t] = "idle"]
  /\ UNCHANGED <<configured, client, constructed, sop, screated, scalls, received, storageFrozen>>

NextStorage ==
  \/ \E t \in Threads : StorageCall(t)
  \/ \E t \in Threads : CheckClient(t)
  \/ \E t \in Threads : CreateClient(t)
  \/ \E t \in Threads : AssignClient(t)
  \/ \E t \in Threads : ReturnClient(t)
  \/ \E t \in Threads : UseClient(t)

SpecStorage == StorageInit /\ [][NextStorage]_allVars

\* C30: get_client creates at most one storage client per process: with a
\* complete configuration, whatever the interleaving of get_client, upload_file
\* and get_file_content calls of the two threads, the client constructor runs at
\* most once and every caller receives the same client.
C30_OneClientPerProcess ==
  configured =>
    /\ constructed <= 1
    /\ Cardinality(received) <= 1



(***************************************************************************)
(* The order of the batch and its temporary images.                        *)
(***************************************************************************)
\* the entries of a sequence of signs are in the zodiac order, none twice
InZodiacOrder(seq) ==
  /\ \A k \in 1..Len(seq) : seq[k] \in 1..MaxSigns
  /\ \A k \in 1..(Len(seq) - 1) : seq[k] < seq[k + 1]

C38_TempImagesRemoved ==
  /\ temp_images \subseteq (IF bpc = "post" THEN {sign} ELSE {})
  /\ bpc = "done" => temp_images = {}

\* a batch has returned with a post missing although every sign was taken up and
\* an image had been downloaded for each post made
C38_Witness ==
  /\ bpc = "done"
  /\ Len(all_posts) < MaxSigns
  /\ Len(all_posts) >= 1
  /\ batchSteps >= 4 * Len(all_posts) + 4



(***************************************************************************)
(* AutomationScheduler: start, stop and update_settings called from the UI *)
(* thread, the threads of _run_pending_jobs, and the automation cycle.     *)
(***************************************************************************)
\* the attributes of schedule.every() that name a day of the week
WeekDays == {"monday", "tuesday", "wednesday", "thursday", "friday", "saturday", "sunday"}

\* the settings update_settings is called with: upload_days after lower() and
\* strip(), one of them no attribute of schedule.every(), and upload_time
NewSettings ==
  {[upload_days |-> {"monday", "someday"}, upload_time |-> "08:30"],
   [upload_days |-> {"tuesday"}, upload_time |-> "19:00"],
   [upload_days |-> {}, upload_time |-> "19:00"]}

SchedInit ==
  /\ Init
  /\ ~kill
  /\ content = [script |-> NoScript, prompts |-> 0]
  /\ image_source = "ai_generated"
  /\ api_key
  /\ RunsIdle
  /\ TimelineIdle
  /\ FunctionsIdle
  /\ BatchIdle
  /\ StorageIdle
  /\ BatchFilesIdle
  /\ LinkedInIdle
  /\ scheduler_thread = 0
  /\ thread_pos = [t \in SchedThreads |-> "unborn"]
  /\ jobs = {}
  /\ setup_args = [a \in SetupCallers |-> DefaultSettings]
  /\ settings = DefaultSettings
  /\ settings_file = DefaultSettings
  /\ upos = "idle"
  /\ updates = 0
  /\ auto_stats = AutoDefaultStats
  /\ stats_file = AutoDefaultStats
  /\ begun = 0
  /\ completed = 0
  /\ youtube_api \in BOOLEAN
  /\ uploads = 0

schedFrozen == <<kill, pipelineVars, runRest, timelineVars, functionVars, batchVars, storageVars,
                 batchFileVars, linkedinVars, targeted, youtube_api>>

\* _setup_schedule, lines 100-102: the schedule is cleared and the settings are read
SetupClear(a) ==
  /\ jobs' = {}
  /\ setup_args' = [setup_args EXCEPT ![a] = settings]

\* _setup_schedule, lines 104-107: one job for each entry of upload_days that is
\* an attribute of schedule.every(); the call returns and its locals are gone
SetupAdd(a) ==
  /\ jobs' = jobs \cup {[day |-> d, at |-> setup_args[a].upload_time, by |-> a] :
                         d \in setup_args[a].upload_days \cap WeekDays}
  /\ setup_args' = [setup_args EXCEPT ![a] = DefaultSettings]

\* start(), lines 71-79
SchedStart ==
  /\ upos = "idle"
  /\ IF is_running
       THEN UNCHANGED <<is_running, scheduler_thread, thread_pos>>
       ELSE \E t \in SchedThreads :
              /\ thread_pos[t] = "unborn"
              /\ \A u \in SchedThreads : u < t => thread_pos[u] # "unborn"
              /\ is_running' = TRUE
              /\ scheduler_thread' = t
              /\ thread_pos' = [thread_pos EXCEPT ![t] = "setup"]
  /\ UNCHANGED <<jobs, setup_args, settings, settings_file, upos, updates, auto_stats, stats_file,
                 begun, completed, uploads, schedFrozen>>

\* stop(), lines 83-86
SchedStopBegin ==
  /\ upos = "idle"
  /\ IF is_running
       THEN is_running' = FALSE /\ upos' = "stop_join"
       ELSE UNCHANGED <<is_running, upos>>
  /\ UNCHANGED <<scheduler_thread, thread_pos, jobs, setup_args, settings, settings_file, updates,
                 auto_stats, stats_file, begun, completed, uploads, schedFrozen>>

\* stop(), lines 87-88: join(timeout=2) returns when the thread has ended, or
\* after two seconds, which only a thread inside a job outlasts
SchedStopJoin ==
  /\ upos = "stop_join"
  /\ \/ scheduler_thread = 0
     \/ thread_pos[scheduler_thread] \in {"dead", "job"}
  /\ upos' = "stop_clear"
  /\ UNCHANGED <<is_running, scheduler_thread, thread_pos, jobs, setup_args, settings,
                 settings_file, updates, auto_stats, stats_file, begun, completed, uploads,
                 schedFrozen>>

\* stop() with the schedule left as it is
SchedStopClear_KeepsJobs ==
  /\ upos = "stop_clear"
  /\ upos' = "idle"
  /\ UNCHANGED <<jobs, is_running, scheduler_thread, thread_pos, setup_args, settings,
                 settings_file, updates, auto_stats, stats_file, begun, completed, uploads,
                 schedFrozen>>

\* stop(), line 89
SchedStopClear ==
  /\ upos = "stop_clear"
  /\ jobs' = {}
  /\ upos' = "idle"
  /\ UNCHANGED <<is_running, scheduler_thread, thread_pos, setup_args, settings, settings_file,
                 updates, auto_stats, stats_file, begun, completed, uploads, schedFrozen>>

\* update_settings, lines 117-119: both keys are given by the settings form
UpdateSettings ==
  /\ upos = "idle"
  /\ updates < MaxUpdates
  /\ updates' = updates + 1
  /\ \E new \in NewSettings :
       /\ settings' = [settings EXCEPT !.upload_days = new.upload_days,
                                       !.upload_time = new.upload_time]
       /\ settings_file' = settings'
  /\ upos' = IF is_running THEN "setup" ELSE "idle"
  /\ UNCHANGED <<is_running, scheduler_thread, thread_pos, jobs, setup_args, auto_stats,
                 stats_file, begun, completed, uploads, schedFrozen>>

\* update_settings, line 120: _setup_schedule in the UI thread
UiSetupClear ==
  /\ upos = "setup"
  /\ SetupClear(0)
  /\ upos' = "setup_add"
  /\ UNCHANGED <<is_running, scheduler_thread, thread_pos, settings, settings_file, updates,
                 auto_stats, stats_file, begun, completed, uploads, schedFrozen>>

UiSetupAdd ==
  /\ upos = "setup_add"
  /\ SetupAdd(0)
  /\ upos' = "idle"
  /\ UNCHANGED <<is_running, scheduler_thread, thread_pos, settings, settings_file, updates,
                 auto_stats, stats_file, begun, completed, uploads, schedFrozen>>

\* _run_pending_jobs, line 93: _setup_schedule in the new thread
ThreadSetupClear(t) ==
  /\ thread_pos[t] = "setup"
  /\ SetupClear(t)
  /\ thread_pos' = [thread_pos EXCEPT ![t] = "setup_add"]
  /\ UNCHANGED <<is_running, scheduler_thread, settings, settings_file, upos, updates,
                 auto_stats, stats_file, begun, completed, uploads, schedFrozen>>

ThreadSetupAdd(t) ==
  /\ thread_pos[t] = "setup_add"
  /\ SetupAdd(t)
  /\ thread_pos' = [thread_pos EXCEPT ![t] = "loop"]
  /\ UNCHANGED <<is_running, scheduler_thread, settings, settings_file, upos, updates,
                 auto_stats, stats_file, begun, completed, uploads, schedFrozen>>

\* _run_pending_jobs, lines 94-96: the thread ends when is_running is false;
\* otherwise run_pending starts a job of the schedule that is due, or nothing is
\* due and the thread sleeps a second and tests again
ThreadLoop(t) ==
  /\ thread_pos[t] = "loop"
  /\ IF ~is_running
       THEN thread_pos' = [thread_pos EXCEPT ![t] = "dead"] /\ UNCHANGED begun
       ELSE /\ jobs # {}
            /\ begun < MaxSchedCycles
            /\ begun' = begun + 1
            /\ thread_pos' = [thread_pos EXCEPT ![t] = "job"]
  /\ UNCHANGED <<is_running, scheduler_thread, jobs, setup_args, settings, settings_file, upos,
                 updates, auto_stats, stats_file, completed, uploads, schedFrozen>>

\* what the cycle does to the statistics, lines 57-69, for the result of
\* create_and_upload_video
CycleStats(success) ==
  LET counted == IF success
                   THEN [auto_stats EXCEPT !.videos_generated = @ + 1, !.videos_uploaded = @ + 1]
                   ELSE [auto_stats EXCEPT !.errors = @ + 1]
  IN  [counted EXCEPT !.last_run = completed + 1]

\* the cycle with a failure report raised to the thread instead of counted
ThreadCycle_FailureRaises(t) ==
  /\ thread_pos[t] = "job"
  /\ \E produced, upload_ok \in BOOLEAN :
       /\ uploads' = IF produced /\ youtube_api /\ upload_ok THEN uploads + 1 ELSE uploads
       /\ IF produced
            THEN /\ auto_stats' = CycleStats(TRUE)
                 /\ stats_file' = auto_stats'
                 /\ thread_pos' = [thread_pos EXCEPT ![t] = "loop"]
            ELSE /\ UNCHANGED <<auto_stats, stats_file>>
                 /\ thread_pos' = [thread_pos EXCEPT ![t] = "raised"]
  /\ completed' = completed + 1
  /\ UNCHANGED <<is_running, scheduler_thread, jobs, setup_args, settings, settings_file, upos,
                 updates, begun, schedFrozen>>

\* run_single_automation_cycle, lines 40-69, with create_and_upload_video,
\* lines 38-69 of youtube_service.py: the video is produced or the call reports
\* a failure; a produced video is uploaded when the service is authenticated
\* and upload_video succeeds, and the call reports success in each of these cases
ThreadCycle(t) ==
  /\ thread_pos[t] = "job"
  /\ \E produced, upload_ok \in BOOLEAN :
       /\ uploads' = IF produced /\ youtube_api /\ upload_ok THEN uploads + 1 ELSE uploads
       /\ auto_stats' = CycleStats(produced)
  /\ stats_file' = auto_stats'
  /\ completed' = completed + 1
  /\ thread_pos' = [thread_pos EXCEPT ![t] = "loop"]
  /\ UNCHANGED <<is_running, scheduler_thread, jobs, setup_args, settings, settings_file, upos,
                 updates, begun, schedFrozen>>

NextSched ==
  \/ SchedStart
  \/ SchedStopBegin
  \/ SchedStopJoin
  \/ SchedStopClear
  \/ UpdateSettings
  \/ UiSetupClear
  \/ UiSetupAdd
  \/ \E t \in SchedThreads : ThreadSetupClear(t)
  \/ \E t \in SchedThreads : ThreadSetupAdd(t)
  \/ \E t \in SchedThreads : ThreadLoop(t)
  \/ \E t \in SchedThreads : ThreadCycle(t)

SpecSched == SchedInit /\ [][NextSched]_allVars

\* the steps of a scheduler thread: the interpreter keeps running every thread,
\* and a job returns
ThreadStep(t) ==
  ThreadSetupClear(t) \/ ThreadSetupAdd(t) \/ ThreadLoop(t) \/ ThreadCycle(t)

SpecSchedFair ==
  SchedInit /\ [][NextSched]_allVars /\ \A t \in SchedThreads : WF_allVars(ThreadStep(t))



(***************************************************************************)
(* Properties of the scheduler.                                            *)
(***************************************************************************)
\* the threads that have been started and have not left _run_pending_jobs
AliveThreads == {t \in SchedThreads : thread_pos[t] \notin {"unborn", "dead", "raised"}}

\* stop() has returned and no start() has followed
StopReturned == ~is_running /\ upos \notin {"stop_join", "stop_clear"}

\* C31, the state after stop(): is_running is false and the schedule holds no jobs
StoppedScheduleIsEmpty == StopReturned => jobs = {}

\* C31: after stop() on a running scheduler with no start() following,
\* is_running is false, the schedule holds no jobs, and eventually the
\* background thread leaves its loop, so that no new cycle begins; a cycle in
\* progress may finish.
C31_StopEndsTheThread ==
  /\ []StoppedScheduleIsEmpty
  /\ (~is_running) ~> (is_running \/ AliveThreads = {})

\* stop() has returned while the thread was inside a cycle, which then finished,
\* and the thread has ended
C31_Witness ==
  /\ StopReturned
  /\ completed >= 1
  /\ scheduler_thread # 0
  /\ thread_pos[scheduler_thread] = "dead"
  /\ auto_stats.last_run >= 1
  /\ jobs = {}

\* C32: after any sequence of start() and stop() calls at most one scheduler
\* thread is polling the schedule: start() while running creates no second
\* thread, and a start() after a stop() whose old thread is still inside a long
\* job never leaves two threads polling.
C32_OnePollingThread ==
  is_running => Cardinality({t \in SchedThreads : thread_pos[t] = "loop"}) <= 1

\* the jobs the settings ask for: one for each valid day name of upload_days, at
\* upload_time
JobsOf(set) == {[day |-> d, at |-> set.upload_time] : d \in set.upload_days \cap WeekDays}

\* C33: update_settings merges and persists the new settings and, while the
\* scheduler is running, leaves the schedule with exactly one job per valid day
\* name of the current upload_days at the current upload_time and no job of the
\* previous settings, also when a scheduler thread runs concurrently.
C33_ScheduleMatchesSettings ==
  /\ settings_file = settings
  /\ (is_running /\ updates > 0 /\ upos = "idle"
        /\ \A t \in AliveThreads : thread_pos[t] \in {"loop", "job"}) =>
       /\ {[day |-> job.day, at |-> job.at] : job \in jobs} = JobsOf(settings)
       /\ \A job, other \in jobs : job.day = other.day => job = other

C35_UploadedMeansUploaded == auto_stats.videos_uploaded <= uploads



(***************************************************************************)
(* Stop requests and the runs they are meant for.                          *)
(***************************************************************************)
\* the stop request that last set the switch found the thread's run awaiting a
\* checkpoint, and that run is still awaiting it
RequestPending(t) ==
  /\ kill
  /\ targeted[t] = cycles
  /\ AwaitsCheckpoint(t)
  /\ ~observed[t]

\* C36: a stop request is never lost: once trigger_kill_switch is called while a
\* production run is active, the switch stays set until that run reaches its
\* next checkpoint and aborts; no other operation, such as a second run starting
\* and resetting the switch, clears it before the targeted run observes it.
C36_StopRequestNeverLost ==
  [][\A t \in Threads : RequestPending(t) => kill']_allVars



(***************************************************************************)
(* LinkedInService: authentication and publish_post.                       *)
(***************************************************************************)
\* the values post_data.get(...) yields: None, the empty string, or a text or path
PostTexts == {"None", "", "text"}

ImagePaths == {"None", "", "path"}

Truthy(v) == v \notin {"None", ""}

\* the values of self.access_token: None, or what a token response held
Tokens == {"None", "", "token"}

\* the dict publish_post returns
Reply(ok, m) == [kind |-> "dict", success |-> ok, message |-> m]

LinkedInInit ==
  /\ Init
  /\ ~kill
  /\ content = [script |-> NoScript, prompts |-> 0]
  /\ image_source = "ai_generated"
  /\ api_key
  /\ RunsIdle
  /\ TimelineIdle
  /\ FunctionsIdle
  /\ BatchIdle
  /\ StorageIdle
  /\ BatchFilesIdle
  /\ AutomationIdle
  /\ LinkedInIdle

linkedinFrozen == <<kill, pipelineVars, runVars, timelineVars, functionVars, batchVars, storageVars,
                    batchFileVars, automationVars, targeted>>

\* is_authenticated, lines 35-36
is_authenticated == access_token # "None"

\* exchange_code_for_token, lines 89-108: whatever the response holds under
\* 'access_token' is stored, None when it holds nothing; a failed request
\* leaves the token as it was
LiExchangeToken ==
  /\ lpc = "idle"
  /\ \E answered \in BOOLEAN, token \in Tokens :
       access_token' = IF answered THEN token ELSE access_token
  /\ UNCHANGED <<user_urn, post_data, li_requests, li_failed, lret, publishes, lpc, linkedinFrozen>>

\* fetch_user_info, lines 110-123: without a token it returns False at once; a
\* failed request leaves the URN as it was
LiFetchUserInfo ==
  /\ lpc = "idle"
  /\ IF ~Truthy(access_token)
       THEN UNCHANGED user_urn
       ELSE \E answered \in BOOLEAN : user_urn' = IF answered THEN "urn" ELSE user_urn
  /\ UNCHANGED <<access_token, post_data, li_requests, li_failed, lret, publishes, lpc,
                 linkedinFrozen>>

\* publish_post returns r after the step named failed did not succeed
LiReturn(r, failed) ==
  /\ lret' = r
  /\ li_failed' = failed
  /\ lpc' = "idle"

\* publish_post, lines 127-132
LiPublishBegin ==
  /\ lpc = "idle"
  /\ publishes < MaxPublish
  /\ publishes' = publishes + 1
  /\ li_requests' = <<>>
  /\ \E text \in PostTexts, path \in ImagePaths :
       /\ post_data' = [post_text |-> text, image_path |-> path]
       /\ IF ~is_authenticated \/ ~Truthy(user_urn)
            THEN LiReturn(Reply(FALSE, "Authentication required. Cannot publish post."), "auth")
            ELSE IF ~(Truthy(text) /\ Truthy(path))
                   THEN LiReturn(Reply(FALSE, "Post data is incomplete."), "data")
                   ELSE lpc' = "register" /\ lret' = Unset /\ li_failed' = "none"
  /\ UNCHANGED <<access_token, user_urn, linkedinFrozen>>

\* publish_post, lines 135-136, with _register_image, lines 144-154
LiRegister ==
  /\ lpc = "register"
  /\ li_requests' = Append(li_requests, "register")
  /\ \E ok \in BOOLEAN :
       IF ok
         THEN lpc' = "upload" /\ UNCHANGED <<lret, li_failed>>
         ELSE LiReturn(Reply(FALSE, "Failed to register image."), "register")
  /\ UNCHANGED <<access_token, user_urn, post_data, publishes, linkedinFrozen>>

\* the upload step with its result ignored
LiUpload_IgnoresFailure ==
  /\ lpc = "upload"
  /\ \E outcome \in {"no_file", "created", "refused"} :
       /\ li_requests' = IF outcome = "no_file" THEN li_requests
                                                  ELSE Append(li_requests, "upload")
       /\ li_failed' = IF outcome = "created" THEN li_failed ELSE "upload"
       /\ lpc' = "create"
       /\ UNCHANGED lret
  /\ UNCHANGED <<access_token, user_urn, post_data, publishes, linkedinFrozen>>

\* publish_post, line 139, with _upload_image, lines 156-164: the file cannot be
\* opened and no request is sent, or the PUT is answered with 201, or it is
\* answered otherwise or fails
LiUpload ==
  /\ lpc = "upload"
  /\ \E outcome \in {"no_file", "created", "refused"} :
       /\ li_requests' = IF outcome = "no_file" THEN li_requests
                                                  ELSE Append(li_requests, "upload")
       /\ IF outcome = "created"
            THEN lpc' = "create" /\ UNCHANGED <<lret, li_failed>>
            ELSE LiReturn(Reply(FALSE, "Failed to upload image."), "upload")
  /\ UNCHANGED <<access_token, user_urn, post_data, publishes, linkedinFrozen>>

\* publish_post, line 142, with _create_ugc_post, lines 166-176
LiCreatePost ==
  /\ lpc = "create"
  /\ li_requests' = Append(li_requests, "post")
  /\ \E ok \in BOOLEAN :
       IF ok
         THEN LiReturn(Reply(TRUE, "published"), "none")
         ELSE LiReturn(Reply(FALSE, "Failed to create the final post."), "post")
  /\ UNCHANGED <<access_token, user_urn, post_data, publishes, linkedinFrozen>>

NextLinkedIn ==
  \/ LiExchangeToken
  \/ LiFetchUserInfo
  \/ LiPublishBegin
  \/ LiRegister
  \/ LiUpload
  \/ LiCreatePost

SpecLinkedIn == LinkedInInit /\ [][NextLinkedIn]_allVars

\* the requests of a publication, in their order
PublishOrder == <<"register", "upload", "post">>

\* C39: publish_post follows the order register image, upload image, create
\* post and stops at the first failing step: the post request is sent only when
\* the service is authenticated with a user URN, the post data is complete, the
\* image was registered and the upload succeeded; otherwise the call returns
\* success False and sends no later request.
C39_PublishStopsAtFirstFailure ==
  /\ \E n \in 0..Len(PublishOrder) : li_requests = SubSeq(PublishOrder, 1, n)
  /\ lpc # "idle" => is_authenticated /\ user_urn # "None"
  /\ (lpc # "idle" \/ li_requests # <<>>) =>
       Truthy(post_data.post_text) /\ Truthy(post_data.image_path)
  /\ Len(li_requests) = Len(PublishOrder) => li_failed \in {"none", "post"}
  /\ li_failed \in {"auth", "data"} => li_requests = <<>>
  /\ li_failed = "register" => li_requests = <<"register">>
  /\ li_failed = "upload" => li_requests \in {<<"register">>, <<"register", "upload">>}
  /\ li_failed # "none" => lpc = "idle" /\ lret.kind = "dict" /\ ~lret.success
  /\ (lret.kind = "dict" /\ lret.success) => li_requests = PublishOrder /\ li_failed = "none"

\* a publication was given up after the upload request was refused
C39_Witness ==
  /\ li_failed = "upload"
  /\ li_requests = <<"register", "upload">>
  /\ lret = Reply(FALSE, "Failed to upload image.")


=============================================================================
